---- MODULE Spec2Model ----
(***************************************************************************)
(* Model of django/db/models/expressions.py: the query-expression tree,    *)
(* its resolution against a query, output-type inference, structural       *)
(* equality and rendering to (sql, params).                                *)
(*                                                                         *)
(* Objects live in a heap so that Python's reference semantics (copy.copy  *)
(* is shallow, lists and querysets are shared until copied) are part of    *)
(* the model: heap.nodes holds expression objects, heap.lists the Python   *)
(* lists a node owns (Func.source_expressions, Case.cases), heap.qsets the *)
(* querysets (with their query) a Subquery holds.  References are indexes; *)
(* 0 is "no object".                                                       *)
(***************************************************************************)
EXTENDS Integers, Sequences, FiniteSets, TLC

VARIABLES heap, root, last, nops, thr, hist

vars == <<heap, root, last, nops, thr, hist>>

----------------------------------------------------------------------------
(* Bounds of the model.                                                    *)

\* Number of API calls made after construction.
MaxOps == 2

----------------------------------------------------------------------------
(* Python values and field (output type) instances.                        *)

PyInt(n) == [t |-> "int", v |-> n]
PyNone == [t |-> "NoneType", v |-> 0]
PyBool(b) == [t |-> "bool", v |-> IF b THEN 1 ELSE 0]
PyTimedelta(n) == [t |-> "timedelta", v |-> n]

\* A field instance: its class and its creation counter (its identity).
Field(cls, n) == [cls |-> cls, id |-> n]
\* Python None in a slot that holds a field.
NoField == [cls |-> "NoneType", id |-> 0]

\* The classes a field class derives from, itself included (its MRO); the
\* field classes of the model derive from Field directly.
FieldBases(cls) == IF cls = "NoneType" THEN {"NoneType"} ELSE {cls, "Field"}

\* isinstance(f, cls)
IsInstance(f, cls) == cls \in FieldBases(f.cls)

\* A cached_property cell in the instance __dict__: absent until the first
\* successful evaluation, then the stored value for good.
NoCache == [set |-> FALSE, val |-> NoField]
Cached(v) == [set |-> TRUE, val |-> v]

----------------------------------------------------------------------------
(* The heap.                                                               *)

EmptyHeap == [nodes |-> <<>>, lists |-> <<>>, qsets |-> <<>>]

NodeIds(h) == 1..Len(h.nodes)

\* Allocation appends; the new object's reference is the new length.
AllocNode(h, rec) == [h EXCEPT !.nodes = Append(@, rec)]
AllocList(h, items) == [h EXCEPT !.lists = Append(@, items)]
AllocQset(h, rec) == [h EXCEPT !.qsets = Append(@, rec)]
NewNodeId(h) == Len(h.nodes) + 1
NewListId(h) == Len(h.lists) + 1
NewQsetId(h) == Len(h.qsets) + 1

\* Outcome of a call (a frame): the heap after it, the returned reference
\* (0: none), the exception raised ("" when it returned), and the names the
\* call asked the query to resolve (query.resolve_ref), in call order.
\* Intermediate results are passed on as frames, statement by statement.
Ret(h, res) == [h |-> h, res |-> res, err |-> "", refs |-> <<>>]
Raise(h, e) == [h |-> h, res |-> 0, err |-> e, refs |-> <<>>]

\* r as the outcome of "c; r": the query was asked c's names first.
After(c, r) == [r EXCEPT !.refs = c.refs \o @]

\* Class attributes of BaseExpression (is_summary, _output_field) and the two
\* cached_property cells of an instance.
BaseExpression(cls, output_field) ==
    [cls |-> cls, is_summary |-> FALSE, copied |-> FALSE,
     _output_field |-> output_field,
     c_output_field |-> NoCache, c_output_field_or_none |-> NoCache]

\* The classes that are expressions with BaseExpression's attributes.
IsBaseExpression(n) == "is_summary" \in DOMAIN n

----------------------------------------------------------------------------
(* Construction.  _constructor_args is what @deconstructible records at     *)
(* construction: the positional arguments and the keyword arguments.  A     *)
(* positional argument that is an expression is kept as a reference.        *)

ArgVal(v) == [t |-> "val", v |-> v, ref |-> 0]
ArgRef(id) == [t |-> "ref", v |-> PyNone, ref |-> id]
ArgStr(s) == [t |-> "str", v |-> [t |-> "str", s |-> s], ref |-> 0]
ArgRefs(ids) == [i \in 1..Len(ids) |-> ArgRef(ids[i])]

\* Keyword arguments as given to a constructor: output_field (NoField when
\* none was passed) and the others.
Kwargs(of, others) == [output_field |-> of, others |-> others]

Deconstructible(args, kwargs) == [_constructor_args |-> [args |-> args, kwargs |-> kwargs]]

\* BaseExpression.__init__ (129-131) through Value.__init__
Value__init__(h, cls, value, output_field) ==
    Ret(AllocNode(h, BaseExpression(cls, output_field) @@ [value |-> value]
                     @@ Deconstructible(<<ArgVal(value)>>, Kwargs(output_field, <<>>))),
        NewNodeId(h))

\* fields.Field(): a new field instance, told from every other by its
\* creation counter.
NewField(h) == Field("Field", 100 + NewNodeId(h))

\* RawSQL.__init__: without an output_field the node gets a Field() of its
\* own; the recorded keyword is the one the caller passed.
RawSQL__init__(h, sql, params, output_field) ==
    Ret(AllocNode(h, BaseExpression("RawSQL", IF output_field = NoField THEN NewField(h)
                                              ELSE output_field)
                     @@ [sql |-> sql, params |-> params]
                     @@ Deconstructible(<<ArgStr(sql), ArgVal([t |-> "tuple", items |-> params])>>,
                                        Kwargs(output_field, <<>>))),
        NewNodeId(h))

CombinedExpression__init__(h, lhs, connector, rhs, output_field) ==
    Ret(AllocNode(h, BaseExpression("CombinedExpression", output_field)
                     @@ [connector |-> connector, lhs |-> lhs, rhs |-> rhs]
                     @@ Deconstructible(<<ArgRef(lhs), ArgStr(connector), ArgRef(rhs)>>,
                                        Kwargs(output_field, <<>>))),
        NewNodeId(h))

\* F, OuterRef and ResolvedOuterRef share F.__init__; name is a field name,
\* or, for OuterRef(OuterRef(...)), another outer reference (inner # 0).
F__init__(h, cls, name, inner) ==
    Ret(AllocNode(h, [cls |-> cls, name |-> name, inner |-> inner]), NewNodeId(h))

\* fcls is the Func class: its function name and its class-level arity
\* (-1: arity = None).
\* Func.__init__ without the arity test of 523-531.
Func__init___unchecked(h, fcls, expressions, output_field) ==
    Ret(AllocNode(AllocList(h, expressions),
                  BaseExpression("Func", output_field)
                  @@ [function |-> fcls.function, arity |-> fcls.arity,
                      source_expressions |-> NewListId(h), extra |-> <<>>]
                  @@ Deconstructible(ArgRefs(expressions), Kwargs(output_field, <<>>))),
        NewNodeId(h))

Func__init__(h, fcls, expressions, output_field) ==
    IF fcls.arity # -1 /\ Len(expressions) # fcls.arity
    THEN Raise(h, "TypeError")
    ELSE Ret(AllocNode(AllocList(h, expressions),
                       BaseExpression("Func", output_field)
                       @@ [function |-> fcls.function, arity |-> fcls.arity,
                           source_expressions |-> NewListId(h), extra |-> <<>>]
                       @@ Deconstructible(ArgRefs(expressions), Kwargs(output_field, <<>>))),
             NewNodeId(h))

\* A condition object (Q): what the lookups compile to is all the model keeps.
\* empty: the condition is statically known to match no rows.
Q__init__(h, lookup, empty) ==
    Ret(AllocNode(h, [cls |-> "Q", lookup |-> lookup, empty |-> empty]), NewNodeId(h))

When__init__(h, condition, then) ==
    IF condition = 0 \/ h.nodes[condition].cls # "Q"
    THEN Raise(h, "TypeError")
    ELSE Ret(AllocNode(h, BaseExpression("When", NoField)
                          @@ [condition |-> condition, result |-> then]
                          @@ Deconstructible(<<ArgRef(condition), ArgRef(then)>>,
                                             Kwargs(NoField, <<>>))),
             NewNodeId(h))

\* Case.__init__ without the isinstance test of 848-849.
Case__init___unchecked(h, cases, default, output_field) ==
    Ret(AllocNode(AllocList(h, cases),
                  BaseExpression("Case", output_field)
                  @@ [cases |-> NewListId(h), default |-> default, extra |-> <<>>]
                  @@ Deconstructible(ArgRefs(cases),
                                     Kwargs(output_field, <<ArgRef(default)>>))),
        NewNodeId(h))

Case__init__(h, cases, default, output_field) ==
    IF \E i \in 1..Len(cases) : h.nodes[cases[i]].cls # "When"
    THEN Raise(h, "TypeError")
    ELSE Ret(AllocNode(AllocList(h, cases),
                       BaseExpression("Case", output_field)
                       @@ [cases |-> NewListId(h), default |-> default, extra |-> <<>>]
                       @@ Deconstructible(ArgRefs(cases),
                                          Kwargs(output_field, <<ArgRef(default)>>))),
             NewNodeId(h))

Col__init__(h, alias, target, output_field) ==
    Ret(AllocNode(h, BaseExpression("Col", IF output_field = NoField THEN target ELSE output_field)
                     @@ [alias |-> alias, target |-> target]
                     @@ Deconstructible(<<ArgStr(alias), ArgVal(target)>>,
                                        Kwargs(output_field, <<>>))),
        NewNodeId(h))

Ref__init__(h, refs, source) ==
    Ret(AllocNode(h, BaseExpression("Ref", NoField) @@ [refs |-> refs, source |-> source]
                     @@ Deconstructible(<<ArgStr(refs), ArgRef(source)>>, Kwargs(NoField, <<>>))),
        NewNodeId(h))

ExpressionWrapper__init__(h, expression, output_field) ==
    Ret(AllocNode(h, BaseExpression("ExpressionWrapper", output_field)
                     @@ [expression |-> expression]
                     @@ Deconstructible(<<ArgRef(expression)>>, Kwargs(output_field, <<>>))),
        NewNodeId(h))

\* The output type Subquery.__init__ passes on: the sole selected column's
\* when none is given.
Subquery_output_field(select, output_field) ==
    IF output_field = NoField /\ Len(select) = 1 THEN select[1] ELSE output_field

\* Subquery.__init__ (917-922); Exists.__init__ (1005-1007) sets negated first.
Subquery__init__(h, cls, queryset, output_field, negated) ==
    Ret(AllocNode(h, BaseExpression(cls, Subquery_output_field(h.qsets[queryset].select,
                                                               output_field))
                     @@ (IF cls = "Exists"
                         THEN [queryset |-> queryset, extra |-> <<>>, negated |-> negated]
                         ELSE [queryset |-> queryset, extra |-> <<>>])
                     @@ Deconstructible(<<ArgVal([t |-> "queryset", v |-> queryset])>>,
                                        Kwargs(output_field, <<>>))),
        NewNodeId(h))

\* OrderBy.__init__ without the mutual-exclusion test of 1041-1042.
OrderBy__init___unchecked(h, expression, descending, nulls_first, nulls_last) ==
    IF expression = 0
    THEN Raise(h, "ValueError")
    ELSE Ret(AllocNode(h, BaseExpression("OrderBy", NoField)
                          @@ [nulls_first |-> nulls_first, nulls_last |-> nulls_last,
                              descending |-> descending, expression |-> expression]
                          @@ Deconstructible(<<ArgRef(expression)>>,
                                             Kwargs(NoField, <<ArgVal(PyBool(descending)),
                                                               ArgVal(PyBool(nulls_first)),
                                                               ArgVal(PyBool(nulls_last))>>))),
             NewNodeId(h))

OrderBy__init__(h, expression, descending, nulls_first, nulls_last) ==
    IF nulls_first /\ nulls_last
    THEN Raise(h, "ValueError")
    ELSE IF expression = 0
    THEN Raise(h, "ValueError")
    ELSE Ret(AllocNode(h, BaseExpression("OrderBy", NoField)
                          @@ [nulls_first |-> nulls_first, nulls_last |-> nulls_last,
                              descending |-> descending, expression |-> expression]
                          @@ Deconstructible(<<ArgRef(expression)>>,
                                             Kwargs(NoField, <<ArgVal(PyBool(descending)),
                                                               ArgVal(PyBool(nulls_first)),
                                                               ArgVal(PyBool(nulls_last))>>))),
             NewNodeId(h))

----------------------------------------------------------------------------
(* Query-building code: a constructor call tree (what the caller writes) is *)
(* run through the constructors above.  p.c names the constructor.          *)

\* A queryset and its query: the alias prefix of its tables, its filter tree
\* (where), the aliases it must not declare (external_aliases), its
\* annotations, its ordering and its selected columns.
Qset(alias_prefix, where, annotations, order_by, select) ==
    [alias_prefix |-> alias_prefix, where |-> where, external_aliases |-> {},
     annotations |-> annotations, order_by |-> order_by, select |-> select]

\* Filter tree: a WhereNode has children; a lookup has lhs and rhs.  rhs is a
\* reference to an expression, or 0 for a plain value.
WhereNode(children) == [t |-> "W", children |-> children]
Lookup(lhs, rhs) == [t |-> "L", lhs |-> lhs, rhs |-> rhs]

RECURSIVE Build(_, _)
RECURSIVE BuildAll(_, _)
RECURSIVE BuildWhere(_, _)
RECURSIVE BuildAnnotations(_, _)

Prepend(id, b) == [b EXCEPT !.ids = <<id>> \o @]

BuildRest(r, ps) ==
    IF r.err # "" THEN [h |-> r.h, ids |-> <<>>, err |-> r.err]
    ELSE Prepend(r.res, BuildAll(r.h, ps))

\* Builds the expressions of ps in order: [h, ids, err].
BuildAll(h, ps) ==
    IF ps = <<>> THEN [h |-> h, ids |-> <<>>, err |-> ""]
    ELSE BuildRest(Build(h, Head(ps)), Tail(ps))

MkLookup(lhs, r) == [h |-> r.h, w |-> Lookup(lhs, r.res)]

BuildLookup(w, l) ==
    IF w.rhs.c = "const" THEN [h |-> l.h, w |-> Lookup(l.res, 0)]
    ELSE MkLookup(l.res, Build(l.h, w.rhs))

PrependChild(w, b) == [b EXCEPT !.w.children = <<w>> \o @]

BuildWhereRest(first, rest) == PrependChild(first.w, BuildWhere(first.h, WhereNode(rest)))

\* Builds a filter tree whose operands are constructor calls: [h, w].
BuildWhere(h, w) ==
    IF w.t = "L" THEN BuildLookup(w, Build(h, w.lhs))
    ELSE IF w.children = <<>> THEN [h |-> h, w |-> WhereNode(<<>>)]
    ELSE BuildWhereRest(BuildWhere(h, Head(w.children)), Tail(w.children))

PrependAnnotation(key, value, b) ==
    [b EXCEPT !.as = <<[key |-> key, value |-> value]>> \o @]

BuildAnnotationsRest(key, r, as) == PrependAnnotation(key, r.res, BuildAnnotations(r.h, as))

BuildAnnotations(h, as) ==
    IF as = <<>> THEN [h |-> h, as |-> <<>>]
    ELSE BuildAnnotationsRest(Head(as).key, Build(h, Head(as).value), Tail(as))

BuildQsetAlloc(q, w, a) ==
    Ret(AllocQset(a.h, Qset(q.alias_prefix, w, a.as, q.order_by, q.select)), NewQsetId(a.h))

BuildQsetAnnotations(q, w) == BuildQsetAlloc(q, w.w, BuildAnnotations(w.h, q.annotations))

BuildQset(h, q) == BuildQsetAnnotations(q, BuildWhere(h, q.where))

\* The operand calls of a constructor call, in evaluation order.
Operands(p) ==
    CASE p.c = "CombinedExpression" -> <<p.lhs, p.rhs>>
      [] p.c = "Func" -> p.expressions
      [] p.c = "When" -> <<p.condition, p.then>>
      [] p.c = "Case" -> p.cases \o <<p.default>>
      [] p.c = "Ref" -> <<p.source>>
      [] p.c \in {"ExpressionWrapper", "OrderBy"} -> <<p.expression>>
      [] p.c = "OuterRef" -> <<p.inner>>
      [] OTHER -> <<>>

\* The constructor call p with its operands built (b).
Construct(p, b) ==
    IF b.err # "" THEN Raise(b.h, b.err)
    ELSE CASE p.c = "Value" -> Value__init__(b.h, p.cls, p.value, p.output_field)
           [] p.c = "RawSQL" -> RawSQL__init__(b.h, p.sql, p.params, p.output_field)
           [] p.c = "F" -> F__init__(b.h, p.cls, p.name, 0)
           [] p.c = "OuterRef" -> F__init__(b.h, "OuterRef", "", b.ids[1])
           [] p.c = "Q" -> Q__init__(b.h, p.lookup, p.empty)
           [] p.c = "Col" -> Col__init__(b.h, p.alias, p.target, p.output_field)
           [] p.c = "CombinedExpression" ->
                 CombinedExpression__init__(b.h, b.ids[1], p.connector, b.ids[2], p.output_field)
           [] p.c = "Func" -> Func__init__(b.h, p.fcls, b.ids, p.output_field)
           [] p.c = "When" -> When__init__(b.h, b.ids[1], b.ids[2])
           [] p.c = "Case" ->
                 Case__init__(b.h, SubSeq(b.ids, 1, Len(b.ids) - 1), b.ids[Len(b.ids)],
                              p.output_field)
           [] p.c = "Ref" -> Ref__init__(b.h, p.refs, b.ids[1])
           [] p.c = "ExpressionWrapper" ->
                 ExpressionWrapper__init__(b.h, b.ids[1], p.output_field)
           [] p.c = "OrderBy" ->
                 OrderBy__init__(b.h, b.ids[1], p.descending, p.nulls_first, p.nulls_last)

ConstructSubquery(p, q) == Subquery__init__(q.h, p.cls, q.res, p.output_field, p.negated)

Build(h, p) ==
    IF p.c = "Subquery" THEN ConstructSubquery(p, BuildQset(h, p.queryset))
    ELSE Construct(p, BuildAll(h, Operands(p)))

----------------------------------------------------------------------------
(* The query collaborator: the outer queries a node is resolved against.    *)

OuterQueries == {"A", "B"}

\* An outer query: its alias prefix, the alias of its base table and the
\* fields a name can resolve to.
OuterQuery(q) ==
    IF q = "A"
    THEN [alias_prefix |-> "T", alias |-> "author",
          fields |-> [id |-> Field("IntegerField", 11), name |-> Field("CharField", 12)]]
    ELSE [alias_prefix |-> "U", alias |-> "book",
          fields |-> [id |-> Field("IntegerField", 21)]]

\* query.resolve_ref(name, allow_joins, reuse, summarize): the column of the
\* query that name refers to, FieldError when the query has no such field.
Query_resolve_ref(h, query, name) ==
    [(IF name \in DOMAIN OuterQuery(query).fields
      THEN Col__init__(h, OuterQuery(query).alias, OuterQuery(query).fields[name], NoField)
      ELSE Raise(h, "FieldError"))
        EXCEPT !.refs = <<[query |-> query, name |-> name]>>]

\* The alias prefix after prefix (Query.alias_prefix runs through the alphabet).
NextPrefix(prefix) ==
    CASE prefix = "T" -> "U" [] prefix = "U" -> "V" [] prefix = "V" -> "W"
      [] prefix = "W" -> "X" [] prefix = "X" -> "Y" [] OTHER -> "Z"

\* query.bump_prefix(outer_query): re-namespaces the nested query's aliases
\* when its prefix collides with the outer query's.
Query_bump_prefix(h, qs, query) ==
    IF h.qsets[qs].alias_prefix # OuterQuery(query).alias_prefix THEN h
    ELSE [h EXCEPT !.qsets[qs].alias_prefix = NextPrefix(@)]

\* queryset.all(): a new queryset holding a deep copy of the query.
QuerySet_all(h, qs) == Ret(AllocQset(h, h.qsets[qs]), NewQsetId(h))

\* queryset.order_by(): a new queryset, a copy with the ordering cleared.
QuerySet_order_by(h, qs) ==
    Ret(AllocQset(h, [h.qsets[qs] EXCEPT !.order_by = <<>>]), NewQsetId(h))

\* Q.resolve_expression: the condition as a filter clause of the query.
Q_resolve_expression(h, id, a) ==
    Ret(AllocNode(h, [h.nodes[id] EXCEPT !.cls = "WhereNode"]), NewNodeId(h))

----------------------------------------------------------------------------
(* copy(), get_source_expressions(), set_source_expressions().             *)

\* BaseExpression.copy: copy.copy is shallow, every attribute is shared.
BaseExpression_copy(h, id) ==
    Ret(AllocNode(h, [h.nodes[id] EXCEPT !.copied = TRUE]), NewNodeId(h))

\* copy.attr = src.attr[:] for the copy c
CopyList(c, attr, src) ==
    [c EXCEPT !.h = [AllocList(c.h, c.h.lists[c.h.nodes[src][attr]])
                        EXCEPT !.nodes[c.res][attr] = NewListId(c.h)]]

Func_copy(h, id) == CopyList(BaseExpression_copy(h, id), "source_expressions", id)

Case_copy(h, id) == CopyList(BaseExpression_copy(h, id), "cases", NewNodeId(h))

\* clone.queryset = q for the clone c
SetQueryset(c, q) == Ret([q.h EXCEPT !.nodes[c.res].queryset = q.res], c.res)

Subquery_copy_all(c) == SetQueryset(c, QuerySet_all(c.h, c.h.nodes[c.res].queryset))

\* Subquery.copy without the queryset.all(): the copy shares the queryset.
Subquery_copy_shared(h, id) == BaseExpression_copy(h, id)

Subquery_copy(h, id) == Subquery_copy_all(BaseExpression_copy(h, id))

Copy(h, id) ==
    CASE h.nodes[id].cls = "Func" -> Func_copy(h, id)
      [] h.nodes[id].cls = "Case" -> Case_copy(h, id)
      [] h.nodes[id].cls \in {"Subquery", "Exists"} -> Subquery_copy(h, id)
      [] OTHER -> BaseExpression_copy(h, id)

\* getattr(expr, 'lhs', None) of a child of the where node
LhsOrNone(child) == IF child.t = "L" THEN child.lhs ELSE 0

IsTruthy(x) == x # 0

\* The truthy lhs of the direct children of the nested query's where.
Subquery_get_source_expressions(h, id) ==
    SelectSeq([i \in 1..Len(h.qsets[h.nodes[id].queryset].where.children) |->
                  LhsOrNone(h.qsets[h.nodes[id].queryset].where.children[i])],
              IsTruthy)

GetSourceExpressions(h, id) ==
    CASE h.nodes[id].cls = "CombinedExpression" -> <<h.nodes[id].lhs, h.nodes[id].rhs>>
      [] h.nodes[id].cls = "Func" -> h.lists[h.nodes[id].source_expressions]
      [] h.nodes[id].cls = "Ref" -> <<h.nodes[id].source>>
      [] h.nodes[id].cls = "ExpressionWrapper" -> <<h.nodes[id].expression>>
      [] h.nodes[id].cls = "When" -> <<h.nodes[id].condition, h.nodes[id].result>>
      [] h.nodes[id].cls = "Case" -> h.lists[h.nodes[id].cases] \o <<h.nodes[id].default>>
      [] h.nodes[id].cls \in {"Subquery", "Exists"} -> Subquery_get_source_expressions(h, id)
      [] h.nodes[id].cls = "OrderBy" -> <<h.nodes[id].expression>>
      [] OTHER -> <<>>

\* set_source_expressions(exprs): the heap after it, or the exception.
SetSourceExpressions(h, id, exprs) ==
    CASE h.nodes[id].cls = "CombinedExpression" ->
            IF Len(exprs) # 2 THEN Raise(h, "ValueError")
            ELSE Ret([h EXCEPT !.nodes[id].lhs = exprs[1], !.nodes[id].rhs = exprs[2]], 0)
      [] h.nodes[id].cls = "Func" ->
            Ret([AllocList(h, exprs) EXCEPT !.nodes[id].source_expressions = NewListId(h)], 0)
      [] h.nodes[id].cls = "Ref" ->
            IF Len(exprs) # 1 THEN Raise(h, "ValueError")
            ELSE Ret([h EXCEPT !.nodes[id].source = exprs[1]], 0)
      [] h.nodes[id].cls \in {"ExpressionWrapper", "OrderBy"} ->
            IF Len(exprs) = 0 THEN Raise(h, "IndexError")
            ELSE Ret([h EXCEPT !.nodes[id].expression = exprs[1]], 0)
      [] h.nodes[id].cls = "When" ->
            IF Len(exprs) # 2 THEN Raise(h, "ValueError")
            ELSE Ret([h EXCEPT !.nodes[id].condition = exprs[1],
                               !.nodes[id].result = exprs[2]], 0)
      [] h.nodes[id].cls = "Case" ->
            IF Len(exprs) = 0 THEN Raise(h, "IndexError")
            ELSE Ret([AllocList(h, SubSeq(exprs, 1, Len(exprs) - 1))
                        EXCEPT !.nodes[id].cases = NewListId(h),
                               !.nodes[id].default = exprs[Len(exprs)]], 0)
      [] OTHER ->
            IF Len(exprs) # 0 THEN Raise(h, "AssertionError") ELSE Ret(h, 0)

----------------------------------------------------------------------------
(* resolve_expression(query, allow_joins, reuse, summarize, for_save).      *)
(* a is the argument record [query, allow_joins, reuse, summarize,          *)
(* for_save].  A call returns a frame with the names it asked the query for *)
(* in refs.  Inside a method, c is the frame whose res is the clone.        *)

ResolveArgs(query, summarize, for_save) ==
    [query |-> query, allow_joins |-> TRUE, reuse |-> "None",
     summarize |-> summarize, for_save |-> for_save]

HasResolveExpression(h, id) == id # 0 /\ h.nodes[id].cls # "WhereNode"

RECURSIVE ResolveExpression(_, _, _)
RECURSIVE ResolveSeq(_, _, _)
RECURSIVE ResolveList(_, _, _, _)
RECURSIVE ResolveAllWhere(_, _, _, _)
RECURSIVE ResolveAnnotations(_, _, _)

\* c.is_summary = summarize
SetSummary(c, a) == [c EXCEPT !.h.nodes[c.res].is_summary = a.summarize]

\* c.attr = r, r the outcome of resolving what c.attr held
StoreChild(c, attr, r) ==
    IF r.err # "" THEN After(c, r)
    ELSE After(c, [r EXCEPT !.h.nodes[c.res][attr] = r.res, !.res = c.res])

\* c.attr = c.attr.resolve_expression(...)
ResolveChild(c, attr, a) ==
    IF c.err # "" THEN c
    ELSE StoreChild(c, attr, ResolveExpression(c.h, c.h.nodes[c.res][attr], a))

\* lst[pos] = r, lst the list c.attr
StoreItem(c, attr, pos, r) ==
    IF r.err # "" THEN After(c, r)
    ELSE After(c, [r EXCEPT !.h.lists[c.h.nodes[c.res][attr]][pos] = r.res, !.res = c.res])

\* for pos, arg in enumerate(c.attr): c.attr[pos] = arg.resolve_expression(...),
\* from position pos on; the list is written in place.
ResolveList(c, attr, pos, a) ==
    IF c.err # "" THEN c
    ELSE IF pos > Len(c.h.lists[c.h.nodes[c.res][attr]]) THEN c
    ELSE ResolveList(StoreItem(c, attr, pos,
                               ResolveExpression(c.h, c.h.lists[c.h.nodes[c.res][attr]][pos], a)),
                     attr, pos + 1, a)

PrependResolved(r, rest) == [rest EXCEPT !.ids = <<r.res>> \o @, !.refs = r.refs \o @]

ResolveSeqRest(r, ids, a) ==
    IF r.err # "" THEN [h |-> r.h, ids |-> <<>>, err |-> r.err, refs |-> r.refs]
    ELSE PrependResolved(r, ResolveSeq(r.h, ids, a))

\* [expr.resolve_expression(...) for expr in ids]: [h, ids, err, refs]
ResolveSeq(h, ids, a) ==
    IF ids = <<>> THEN [h |-> h, ids |-> <<>>, err |-> "", refs |-> <<>>]
    ELSE ResolveSeqRest(ResolveExpression(h, Head(ids), a), Tail(ids), a)

\* The outcome s of a call made for its effect, the method then returning res.
Returning(res, refs, s) ==
    IF s.err # "" THEN [s EXCEPT !.refs = refs] ELSE [s EXCEPT !.res = res, !.refs = refs]

\* c.set_source_expressions(rs)
BaseSetSources(c, rs) ==
    IF rs.err # "" THEN [Raise(rs.h, rs.err) EXCEPT !.refs = rs.refs]
    ELSE Returning(c.res, rs.refs, SetSourceExpressions(rs.h, c.res, rs.ids))

\* The children are resolved with (query, allow_joins, reuse, summarize):
\* for_save is not passed on, its default (False) applies.
BaseResolveSources(c, a) ==
    BaseSetSources(c, ResolveSeq(c.h, GetSourceExpressions(c.h, c.res),
                                 [a EXCEPT !.for_save = FALSE]))

BaseExpression_resolve_expression(h, id, a) ==
    BaseResolveSources(SetSummary(Copy(h, id), a), a)

\* c.for_save = for_save
SetForSave(c, a) ==
    IF c.err # "" THEN c
    ELSE [c EXCEPT !.h.nodes[c.res] = [for_save |-> a.for_save] @@ @]

Value_resolve_expression(h, id, a) ==
    SetForSave(BaseExpression_resolve_expression(h, id, a), a)

CombinedExpression_resolve_expression(h, id, a) ==
    ResolveChild(ResolveChild(SetSummary(Copy(h, id), a), "lhs", a), "rhs", a)

\* Resolving a reference returns the reference itself, the query not asked.
F_resolve_expression_returns_self(h, id, a) == Ret(h, id)

F_resolve_expression(h, id, a) == Query_resolve_ref(h, a.query, h.nodes[id].name)

OuterRef_resolve_expression(h, id, a) ==
    IF h.nodes[id].inner # 0 /\ h.nodes[h.nodes[id].inner].cls = "OuterRef"
    THEN Ret(h, h.nodes[id].inner)
    ELSE F__init__(h, "ResolvedOuterRef", h.nodes[id].name, h.nodes[id].inner)

\* The list of c as it was in c0, followed by the list of c.
AppendedTo(c0, c) ==
    IF c.err # "" THEN c
    ELSE [c EXCEPT !.h.lists[c.h.nodes[c.res].source_expressions] =
                       c0.h.lists[c0.h.nodes[c0.res].source_expressions] \o @]

Func_resolve_appending(c, a) == AppendedTo(c, ResolveList(c, "source_expressions", 1, a))

\* The resolved arguments are appended to the copied list instead of
\* replacing its elements.
Func_resolve_expression_appending(h, id, a) ==
    Func_resolve_appending(SetSummary(Copy(h, id), a), a)

Func_resolve_expression(h, id, a) ==
    ResolveList(SetSummary(Copy(h, id), a), "source_expressions", 1, a)

\* if hasattr(c.condition, 'resolve_expression'): c.condition = ...(for_save False)
When_resolve_condition(c, a) ==
    IF HasResolveExpression(c.h, c.h.nodes[c.res].condition)
    THEN ResolveChild(c, "condition", [a EXCEPT !.for_save = FALSE])
    ELSE c

When_resolve_expression(h, id, a) ==
    ResolveChild(When_resolve_condition(SetSummary(Copy(h, id), a), a), "result", a)

Case_resolve_expression(h, id, a) ==
    ResolveChild(ResolveList(SetSummary(Copy(h, id), a), "cases", 1, a), "default", a)

\* clone.queryset of the clone c
QsOf(c) == c.h.nodes[c.res].queryset

\* if hasattr(resolved, 'alias'): qs.query.external_aliases.add(resolved.alias)
AddExternalAlias(qs, r) ==
    IF r.err # "" THEN r
    ELSE IF "alias" \in DOMAIN r.h.nodes[r.res]
    THEN [r EXCEPT !.h.qsets[qs].external_aliases = @ \cup {r.h.nodes[r.res].alias}]
    ELSE r

\* resolve(child) of Subquery.resolve_expression, for the clone's queryset qs.
Subquery_resolve(h, qs, child, a) ==
    IF ~HasResolveExpression(h, child) THEN Ret(h, child)
    ELSE AddExternalAlias(qs, ResolveExpression(h, child, a))

\* child.rhs = r
StoreRhs(w, r) ==
    [h |-> r.h, w |-> IF r.err = "" THEN [w EXCEPT !.rhs = r.res] ELSE w,
     err |-> r.err, refs |-> r.refs]

PrependWhere(first, rest) ==
    [rest EXCEPT !.w.children = <<first.w>> \o @, !.refs = first.refs \o @]

ResolveAllWhereRest(first, qs, w, a) ==
    IF first.err # "" THEN [first EXCEPT !.w = [w EXCEPT !.children = <<first.w>> \o @]]
    ELSE PrependWhere(first, ResolveAllWhere(first.h, qs, w, a))

\* resolve_all(w) on a filter tree of queryset qs: [h, w, err, refs], w the
\* tree with the operands resolved so far written in place.
ResolveAllWhere(h, qs, w, a) ==
    IF w.t = "L" THEN StoreRhs(w, Subquery_resolve(h, qs, w.rhs, a))
    ELSE IF w.children = <<>> THEN [h |-> h, w |-> w, err |-> "", refs |-> <<>>]
    ELSE ResolveAllWhereRest(ResolveAllWhere(h, qs, Head(w.children), a), qs,
                             [w EXCEPT !.children = Tail(@)], a)

\* annotations[key] = r, key the i-th key
StoreAnnotation(c, i, r) ==
    IF r.err # "" THEN After(c, r)
    ELSE After(c, [r EXCEPT !.h.qsets[QsOf(c)].annotations[i].value = r.res, !.res = c.res])

\* The loop over the clone's annotations, from position i on.
ResolveAnnotations(c, i, a) ==
    IF c.err # "" THEN c
    ELSE IF i > Len(c.h.qsets[QsOf(c)].annotations) THEN c
    ELSE IF c.h.nodes[c.h.qsets[QsOf(c)].annotations[i].value].cls \notin {"Subquery", "Exists"}
    THEN ResolveAnnotations(c, i + 1, a)
    ELSE ResolveAnnotations(
             StoreAnnotation(c, i, Subquery_resolve(c.h, QsOf(c),
                                                    c.h.qsets[QsOf(c)].annotations[i].value, a)),
             i + 1, a)

\* clone.queryset.query.bump_prefix(query)
BumpPrefix(c, query) == [c EXCEPT !.h = Query_bump_prefix(c.h, QsOf(c), query)]

\* The filter tree of the clone after resolve_all, as far as it got.
StoreWhere(c, r) ==
    [h |-> [r.h EXCEPT !.qsets[QsOf(c)].where = r.w],
     res |-> IF r.err = "" THEN c.res ELSE 0, err |-> r.err, refs |-> c.refs \o r.refs]

\* Subquery.resolve_expression in its three stages: copy and bump_prefix,
\* resolve_all(where), the annotations.  Each returns the clone.
Subquery_resolve_begin(h, id, a) == BumpPrefix(SetSummary(Copy(h, id), a), a.query)

Subquery_resolve_where(c, a) ==
    IF c.err # "" THEN c
    ELSE StoreWhere(c, ResolveAllWhere(c.h, QsOf(c), c.h.qsets[QsOf(c)].where, a))

Subquery_resolve_annotations(c, a) == ResolveAnnotations(c, 1, a)

Subquery_resolve_expression(h, id, a) ==
    Subquery_resolve_annotations(Subquery_resolve_where(Subquery_resolve_begin(h, id, a), a), a)

\* self.queryset = q
Exists_set_queryset(id, q) == [q.h EXCEPT !.nodes[id].queryset = q.res]

\* The assignment left out: the queryset keeps its ordering.
Exists_strip_ordering_skipped(h, id) == h

\* self.queryset = self.queryset.order_by()
Exists_strip_ordering(h, id) == Exists_set_queryset(id, QuerySet_order_by(h, h.nodes[id].queryset))

Exists_resolve_expression(h, id, a) ==
    Subquery_resolve_expression(Exists_strip_ordering(h, id), id, a)

ResolveExpression(h, id, a) ==
    CASE h.nodes[id].cls \in {"Value", "DurationValue"} -> Value_resolve_expression(h, id, a)
      [] h.nodes[id].cls = "CombinedExpression" -> CombinedExpression_resolve_expression(h, id, a)
      [] h.nodes[id].cls \in {"F", "ResolvedOuterRef"} -> F_resolve_expression(h, id, a)
      [] h.nodes[id].cls = "OuterRef" -> OuterRef_resolve_expression(h, id, a)
      [] h.nodes[id].cls = "Func" -> Func_resolve_expression(h, id, a)
      [] h.nodes[id].cls = "When" -> When_resolve_expression(h, id, a)
      [] h.nodes[id].cls = "Case" -> Case_resolve_expression(h, id, a)
      [] h.nodes[id].cls = "Ref" -> Ret(h, id)
      [] h.nodes[id].cls = "Subquery" -> Subquery_resolve_expression(h, id, a)
      [] h.nodes[id].cls = "Exists" -> Exists_resolve_expression(h, id, a)
      [] h.nodes[id].cls = "Q" -> Q_resolve_expression(h, id, a)
      [] OTHER -> BaseExpression_resolve_expression(h, id, a)

----------------------------------------------------------------------------
(* The observable value of an object: its own attributes and, recursively,  *)
(* those of everything it refers to (children, owned lists, nested query).  *)

RECURSIVE WhereOperands(_)
\* The expressions a filter tree refers to, in tree order.
WhereOperands(w) ==
    IF w.t = "L" THEN SelectSeq(<<w.lhs, w.rhs>>, IsTruthy)
    ELSE IF w.children = <<>> THEN <<>>
    ELSE WhereOperands(Head(w.children)) \o WhereOperands([w EXCEPT !.children = Tail(@)])

AnnotationValues(q) == [i \in 1..Len(q.annotations) |-> q.annotations[i].value]

\* Every expression a node refers to directly.
Referents(h, id) ==
    CASE h.nodes[id].cls \in {"Subquery", "Exists"} ->
            WhereOperands(h.qsets[h.nodes[id].queryset].where)
                \o AnnotationValues(h.qsets[h.nodes[id].queryset])
      [] h.nodes[id].cls = "OuterRef" -> SelectSeq(<<h.nodes[id].inner>>, IsTruthy)
      [] OTHER -> GetSourceExpressions(h, id)

RECURSIVE Snapshot(_, _)

\* A Subquery's queryset is compared by what it holds, not by which object
\* it is.
SnapshotOf(h, n, kids) ==
    [node |-> IF n.cls \in {"Subquery", "Exists"} THEN [n EXCEPT !.queryset = 0] ELSE n,
     list |-> IF n.cls = "Func" THEN h.lists[n.source_expressions]
              ELSE IF n.cls = "Case" THEN h.lists[n.cases] ELSE <<>>,
     queryset |-> IF n.cls \in {"Subquery", "Exists"} THEN <<h.qsets[n.queryset]>> ELSE <<>>,
     kids |-> [i \in 1..Len(kids) |-> Snapshot(h, kids[i])]]

Snapshot(h, id) == SnapshotOf(h, h.nodes[id], Referents(h, id))

----------------------------------------------------------------------------
(* output_field, _output_field_or_none and _resolve_output_field.  A        *)
(* request returns [h, val, err]: evaluating it writes the node             *)
(* (_output_field, the cached_property cells), so the heap is part of the   *)
(* outcome.                                                                 *)

ORet(h, val) == [h |-> h, val |-> val, err |-> ""]
ORaise(h, e) == [h |-> h, val |-> NoField, err |-> e]

RECURSIVE OutputFieldOrNone(_, _)
RECURSIVE SourceFields(_, _)
RECURSIVE UnifyLoop(_, _, _, _)

PrependField(val, s) == [s EXCEPT !.vals = <<val>> \o @]

SourceFieldsRest(r, ids) ==
    IF r.err # "" THEN [h |-> r.h, vals |-> <<>>, err |-> r.err]
    ELSE PrependField(r.val, SourceFields(r.h, ids))

\* [e._output_field_or_none for e in ids]: [h, vals, err]
SourceFields(h, ids) ==
    IF ids = <<>> THEN [h |-> h, vals |-> <<>>, err |-> ""]
    ELSE SourceFieldsRest(OutputFieldOrNone(h, Head(ids)), Tail(ids))

\* BaseExpression.get_source_fields; When looks at its result only.
GetSourceFields(h, id) ==
    IF h.nodes[id].cls = "When" THEN SourceFields(h, <<h.nodes[id].result>>)
    ELSE SourceFields(h, GetSourceExpressions(h, id))

\* if source is not None and not isinstance(self._output_field, source.__class__)
UnifyStep(h, id, vals, i) ==
    IF vals[i] # NoField /\ ~IsInstance(h.nodes[id]._output_field, vals[i].cls)
    THEN ORaise(h, "FieldError")
    ELSE UnifyLoop(h, id, vals, i + 1)

\* if self._output_field is None: self._output_field = source
AdoptSource(h, id, source) ==
    IF h.nodes[id]._output_field = NoField
    THEN [h EXCEPT !.nodes[id]._output_field = source]
    ELSE h

\* for source in sources, from position i on
UnifyLoop(h, id, vals, i) ==
    IF i > Len(vals) THEN ORet(h, NoField)
    ELSE UnifyStep(AdoptSource(h, id, vals[i]), id, vals, i)

UnifySources(id, s) ==
    IF s.err # "" THEN ORaise(s.h, s.err)
    ELSE IF Len(s.vals) = 0 THEN ORet([s.h EXCEPT !.nodes[id]._output_field = NoField], NoField)
    ELSE UnifyLoop(s.h, id, s.vals, 1)

ResolveOutputField(h, id) ==
    IF h.nodes[id]._output_field # NoField THEN ORet(h, NoField)
    ELSE UnifySources(id, GetSourceFields(h, id))

\* return self._output_field, after r
ReturnOutputField(id, r) ==
    IF r.err # "" THEN r ELSE ORet(r.h, r.h.nodes[id]._output_field)

\* The body of the _output_field_or_none property.
OutputFieldOrNoneBody(h, id) ==
    IF h.nodes[id]._output_field = NoField
    THEN ReturnOutputField(id, ResolveOutputField(h, id))
    ELSE ORet(h, h.nodes[id]._output_field)

\* cached_property: the value the body returned is stored in the instance.
StoreCached(id, cell, r) ==
    IF r.err # "" THEN r ELSE [r EXCEPT !.h.nodes[id][cell] = Cached(r.val)]

\* node._output_field_or_none; F and Q objects have no such attribute.
OutputFieldOrNone(h, id) ==
    IF ~IsBaseExpression(h.nodes[id]) THEN ORaise(h, "AttributeError")
    ELSE IF h.nodes[id].c_output_field_or_none.set
    THEN ORet(h, h.nodes[id].c_output_field_or_none.val)
    ELSE StoreCached(id, "c_output_field_or_none", OutputFieldOrNoneBody(h, id))

\* The body of the output_field property, r the value of
\* self._output_field_or_none.
OutputFieldBody(r) ==
    IF r.err # "" THEN r
    ELSE IF r.val = NoField THEN ORaise(r.h, "FieldError")
    ELSE r

BooleanField == Field("BooleanField", 0)

\* node.output_field; Exists overrides it with a plain property.
OutputField(h, id) ==
    IF ~IsBaseExpression(h.nodes[id]) THEN ORaise(h, "AttributeError")
    ELSE IF h.nodes[id].cls = "Exists" THEN ORet(h, BooleanField)
    ELSE IF h.nodes[id].c_output_field.set THEN ORet(h, h.nodes[id].c_output_field.val)
    ELSE StoreCached(id, "c_output_field", OutputFieldBody(OutputFieldOrNone(h, id)))

----------------------------------------------------------------------------
(* __eq__ and __hash__ over the deconstruction (path, args, kwargs).        *)

\* type(x) of a keyword value that is a field or None
TypeOf(f) == f.cls

RECURSIVE Eq(_, _, _)
RECURSIVE HashOf(_, _)

\* a == b for two recorded arguments: expressions by their __eq__, anything
\* else by value.
ArgEq(h, a, b) ==
    IF a.t # b.t THEN FALSE
    ELSE IF a.t = "ref" THEN (a.ref = b.ref \/ Eq(h, a.ref, b.ref))
    ELSE a.v = b.v

\* args == other_args for two tuples
ArgsEq(h, as, bs) ==
    /\ Len(as) = Len(bs)
    /\ \A i \in 1..Len(as) : ArgEq(h, as[i], bs[i])

\* deconstruct()[0]: the import path of the class
Path(n) == <<"django.db.models.expressions", n.cls>>

\* The comparison of the output_field keywords as instances.
OutputFieldEq_by_instance(ka, kb) == ka.output_field = kb.output_field

\* type(kwargs.pop('output_field', None)) == type(other_kwargs.pop(...))
OutputFieldEq(ka, kb) == TypeOf(ka.output_field) = TypeOf(kb.output_field)

BaseExpression__eq__(h, a, b) ==
    IF h.nodes[a].cls # h.nodes[b].cls THEN FALSE
    ELSE IF /\ Path(h.nodes[a]) = Path(h.nodes[b])
            /\ ArgsEq(h, h.nodes[a]._constructor_args.args, h.nodes[b]._constructor_args.args)
    THEN IF OutputFieldEq(h.nodes[a]._constructor_args.kwargs,
                          h.nodes[b]._constructor_args.kwargs)
         THEN ArgsEq(h, h.nodes[a]._constructor_args.kwargs.others,
                     h.nodes[b]._constructor_args.kwargs.others)
         ELSE FALSE
    ELSE FALSE

\* F.__eq__: same class and same name (the name may be an outer reference).
F__eq__(h, a, b) ==
    /\ h.nodes[a].cls = h.nodes[b].cls
    /\ h.nodes[a].name = h.nodes[b].name
    /\ \/ h.nodes[a].inner = h.nodes[b].inner
       \/ (h.nodes[a].inner # 0 /\ h.nodes[b].inner # 0
           /\ Eq(h, h.nodes[a].inner, h.nodes[b].inner))

\* a == b
Eq(h, a, b) ==
    IF IsBaseExpression(h.nodes[a]) THEN BaseExpression__eq__(h, a, b)
    ELSE IF h.nodes[a].cls \in {"F", "OuterRef", "ResolvedOuterRef"} THEN F__eq__(h, a, b)
    ELSE a = b

\* x ^ y on hash values: a hash value is the set of the bits set in it.
Xor(x, y) == (x \ y) \cup (y \ x)

\* hash(v) of one value: a field hashes by its identity (its creation
\* counter), an expression by its __hash__, anything else by value.
HashArg(h, a) == IF a.t = "ref" THEN [expr |-> HashOf(h, a.ref)] ELSE [val |-> a.v]

\* hash(a tuple)
HashTuple(h, as) == {[tuple |-> [i \in 1..Len(as) |-> HashArg(h, as[i])]]}

RECURSIVE XorAll(_)
XorAll(xs) == IF xs = <<>> THEN {} ELSE Xor(Head(xs), XorAll(Tail(xs)))

\* hash(kwarg) for the items of kwargs
HashKwargs(h, k) ==
    Xor(IF k.output_field = NoField THEN {}
        ELSE {[item |-> "output_field", field |-> k.output_field]},
        IF k.others = <<>> THEN {} ELSE {[item |-> "others", v |-> HashTuple(h, k.others)]})

BaseExpression__hash__(h, id) ==
    Xor(Xor({[path |-> Path(h.nodes[id])]}, HashTuple(h, h.nodes[id]._constructor_args.args)),
        HashKwargs(h, h.nodes[id]._constructor_args.kwargs))

\* F.__hash__: hash(self.name)
F__hash__(h, id) ==
    IF h.nodes[id].inner # 0 THEN {[expr |-> HashOf(h, h.nodes[id].inner)]}
    ELSE {[val |-> h.nodes[id].name]}

\* The hashes of the params, one after the other.
HashParams(params) == [i \in 1..Len(params) |-> {[val |-> params[i]]}]

\* RawSQL.__hash__: hash(self.sql) ^ hash(self._output_field) ^ hash(param)
\* for each param.
RawSQL__hash__(h, id) ==
    Xor(Xor({[val |-> [t |-> "str", s |-> h.nodes[id].sql]]},
            {[field |-> h.nodes[id]._output_field]}),
        XorAll(HashParams(h.nodes[id].params)))

HashOf(h, id) ==
    IF h.nodes[id].cls = "RawSQL" THEN RawSQL__hash__(h, id)
    ELSE IF IsBaseExpression(h.nodes[id]) THEN BaseExpression__hash__(h, id)
    ELSE IF h.nodes[id].cls \in {"F", "OuterRef", "ResolvedOuterRef"} THEN F__hash__(h, id)
    ELSE {[object |-> id]}

----------------------------------------------------------------------------
(* The compiler and connection collaborators.  SQL text is a sequence of    *)
(* tokens, "%s" the placeholder of a bind parameter; a rendering returns    *)
(* [h, sql, params, err] (reading an output type writes the node).          *)

Vendors == {"postgresql", "sqlite", "mysql", "oracle"}

RRet(h, sql, params) == [h |-> h, sql |-> sql, params |-> params, err |-> ""]
RRaise(h, e) == [h |-> h, sql |-> <<>>, params |-> <<>>, err |-> e]

\* connection.features.has_native_duration_field
HasNativeDurationField(v) == v \in {"postgresql", "oracle"}

\* field.get_internal_type()
GetInternalType(f) == f.cls

\* field.get_db_prep_value / get_db_prep_save: the value as the column type
\* takes it; None stays None.
GetDbPrepValue(f, val) ==
    IF val = PyNone THEN val
    ELSE IF f.cls = "FloatField" /\ val.t = "int" THEN [t |-> "float", v |-> val.v]
    ELSE val

\* connection.ops.combine_expression(connector, [lhs, rhs])
CombineExpression(connector, lhs, rhs) == lhs \o <<connector>> \o rhs

\* connection.ops.combine_duration_expression(connector, [lhs, rhs])
CombineDurationExpression(v, connector, lhs, rhs) ==
    IF v = "sqlite"
    THEN <<"django_format_dtdelta(", connector, ",">> \o lhs \o <<",">> \o rhs \o <<")">>
    ELSE lhs \o <<connector>> \o rhs

\* connection.ops.format_for_duration_arithmetic(sql)
FormatForDurationArithmetic(v, sql) ==
    IF v = "mysql" THEN <<"INTERVAL">> \o sql \o <<"MICROSECOND">> ELSE sql

\* connection.ops.date_interval_sql(timedelta): (sql, params)
DateIntervalSql(h, v, value) == RRet(h, <<"INTERVAL", "'duration'", "MICROSECOND">>, <<>>)

\* connection.ops.subtract_temporals(internal_type, lhs, rhs)
SubtractTemporals(v, l, r) ==
    IF v = "sqlite"
    THEN RRet(r.h, <<"django_timestamp_diff(">> \o l.sql \o <<",">> \o r.sql \o <<")">>,
              l.params \o r.params)
    ELSE RRet(r.h, <<"(">> \o l.sql \o <<"-">> \o r.sql \o <<")">>, l.params \o r.params)

\* connection.ops.unification_cast_sql(output_field) % sql
UnificationCastSql(v, f, sql) ==
    IF v = "postgresql" /\ f.cls = "GenericIPAddressField"
    THEN <<"HOST(">> \o sql \o <<")">>
    ELSE sql

\* connection.ops.quote_name(name)
QuoteName(name) == <<"\"", name, "\"">>

RECURSIVE Compile(_, _, _)
RECURSIVE AsSql(_, _, _)
RECURSIVE CompileAll(_, _, _, _)
RECURSIVE WhereTreeAsSql(_, _, _)
RECURSIVE JoinWith(_, _)

\* joiner.join(parts)
JoinWith(parts, joiner) ==
    IF parts = <<>> THEN <<>>
    ELSE IF Len(parts) = 1 THEN parts[1]
    ELSE parts[1] \o joiner \o JoinWith(Tail(parts), joiner)

\* The compiled condition of a When: the lookups of the Q as a filter
\* clause, EmptyResultSet when no row can match.
WhereNode_as_sql(h, id, v) ==
    IF h.nodes[id].empty THEN RRaise(h, "EmptyResultSet")
    ELSE RRet(h, <<h.nodes[id].lookup, "=", "%s">>, <<PyInt(1)>>)

\* try: node.output_field / except FieldError: None
TryOutputField(o) == IF o.err = "FieldError" THEN ORet(o.h, NoField) ELSE o

\* Value.as_sql from "if val is None" on.
Value_placeholder(h, val) ==
    IF val = PyNone THEN RRet(h, <<"NULL">>, <<>>) ELSE RRet(h, <<"%s">>, <<val>>)

\* val = self.output_field.get_db_prep_save/value(val), o the output_field
Value_prepared(id, o) ==
    IF o.err # "" THEN RRaise(o.h, o.err)
    ELSE Value_placeholder(o.h, GetDbPrepValue(o.val, o.h.nodes[id].value))

\* self.for_save is set by resolve_expression only.
Value_as_sql(h, id, v) ==
    IF h.nodes[id]._output_field # NoField
    THEN IF "for_save" \notin DOMAIN h.nodes[id] THEN RRaise(h, "AttributeError")
         ELSE Value_prepared(id, OutputField(h, id))
    ELSE Value_placeholder(h, h.nodes[id].value)

DurationValue_as_sql(h, id, v) ==
    IF HasNativeDurationField(v) THEN Value_as_sql(h, id, v)
    ELSE DateIntervalSql(h, v, h.nodes[id].value)

\* expression_wrapper % combine_expression(connector, [l, r])
\* CombinedExpression.as_sql without the expression_wrapper '(%s)' of 405-407.
Combined_wrap_bare(connector, l, r) ==
    IF r.err # "" THEN r
    ELSE RRet(r.h, CombineExpression(connector, l.sql, r.sql), l.params \o r.params)

Combined_wrap(connector, l, r) ==
    IF r.err # "" THEN r
    ELSE RRet(r.h, <<"(">> \o CombineExpression(connector, l.sql, r.sql) \o <<")">>,
              l.params \o r.params)

Combined_rhs(id, v, l) ==
    IF l.err # "" THEN l
    ELSE Combined_wrap(l.h.nodes[id].connector, l, Compile(l.h, l.h.nodes[id].rhs, v))

\* The generic rendering: both sides through the compiler.
Combined_generic(h, id, v) == Combined_rhs(id, v, Compile(h, h.nodes[id].lhs, v))

Formatted(v, r) ==
    IF r.err # "" THEN r ELSE RRet(r.h, FormatForDurationArithmetic(v, r.sql), r.params)

Duration_compile_typed(v, side, o) ==
    IF o.err # "" THEN RRaise(o.h, o.err)
    ELSE IF o.val # NoField /\ GetInternalType(o.val) = "DurationField"
    THEN Formatted(v, Compile(o.h, side, v))
    ELSE Compile(o.h, side, v)

\* DurationExpression.compile that never formats the side (427-434 left out).
DurationExpression_compile_unformatted(h, side, v) == Compile(h, side, v)

\* DurationExpression.compile(side, compiler, connection)
DurationExpression_compile(h, side, v) ==
    IF h.nodes[side].cls = "DurationValue" THEN Compile(h, side, v)
    ELSE Duration_compile_typed(v, side, TryOutputField(OutputField(h, side)))

Duration_wrap(v, connector, l, r) ==
    IF r.err # "" THEN r
    ELSE RRet(r.h, <<"(">> \o CombineDurationExpression(v, connector, l.sql, r.sql) \o <<")">>,
              l.params \o r.params)

Duration_rhs(id, v, l) ==
    IF l.err # "" THEN l
    ELSE Duration_wrap(v, l.h.nodes[id].connector, l,
                       DurationExpression_compile(l.h, l.h.nodes[id].rhs, v))

\* DurationExpression(lhs, connector, rhs).as_sql
DurationExpression_as_sql(h, id, v) ==
    Duration_rhs(id, v, DurationExpression_compile(h, h.nodes[id].lhs, v))

Temporal_subtract(v, l, r) == IF r.err # "" THEN r ELSE SubtractTemporals(v, l, r)

Temporal_rhs(id, v, l) ==
    IF l.err # "" THEN l ELSE Temporal_subtract(v, l, Compile(l.h, l.h.nodes[id].rhs, v))

\* TemporalSubtraction(lhs, rhs).as_sql
TemporalSubtraction_as_sql(h, id, v) == Temporal_rhs(id, v, Compile(h, h.nodes[id].lhs, v))

TemporalTypes == {"DateField", "DateTimeField", "TimeField"}

\* CombinedExpression.as_sql without the connector test of 394.
Combined_dispatch_any_connector(id, v, lhs_output, ro) ==
    IF ro.err # "" THEN RRaise(ro.h, ro.err)
    ELSE IF /\ ~HasNativeDurationField(v)
            /\ \/ (lhs_output # NoField /\ GetInternalType(lhs_output) = "DurationField")
               \/ (ro.val # NoField /\ GetInternalType(ro.val) = "DurationField")
    THEN DurationExpression_as_sql(ro.h, id, v)
    ELSE IF /\ lhs_output # NoField /\ ro.val # NoField
            /\ GetInternalType(lhs_output) \in TemporalTypes
            /\ GetInternalType(lhs_output) = GetInternalType(ro.val)
    THEN TemporalSubtraction_as_sql(ro.h, id, v)
    ELSE Combined_generic(ro.h, id, v)

\* The three renderings of CombinedExpression.as_sql, chosen by the output
\* types of the two sides.
Combined_dispatch(id, v, lhs_output, ro) ==
    IF ro.err # "" THEN RRaise(ro.h, ro.err)
    ELSE IF /\ ~HasNativeDurationField(v)
            /\ \/ (lhs_output # NoField /\ GetInternalType(lhs_output) = "DurationField")
               \/ (ro.val # NoField /\ GetInternalType(ro.val) = "DurationField")
    THEN DurationExpression_as_sql(ro.h, id, v)
    ELSE IF /\ lhs_output # NoField /\ ro.val # NoField
            /\ ro.h.nodes[id].connector = "-"
            /\ GetInternalType(lhs_output) \in TemporalTypes
            /\ GetInternalType(lhs_output) = GetInternalType(ro.val)
    THEN TemporalSubtraction_as_sql(ro.h, id, v)
    ELSE Combined_generic(ro.h, id, v)

Combined_rhs_output(id, v, lo) ==
    IF lo.err # "" THEN RRaise(lo.h, lo.err)
    ELSE Combined_dispatch(id, v, lo.val,
                           TryOutputField(OutputField(lo.h, lo.h.nodes[id].rhs)))

CombinedExpression_as_sql(h, id, v) ==
    Combined_rhs_output(id, v, TryOutputField(OutputField(h, h.nodes[id].lhs)))

\* One more compiled part; skip: an EmptyResultSet part is left out.
\* The loop of Case.as_sql without the "except EmptyResultSet: continue" of
\* 892-893.
AppendPart_propagating(acc, r, skip) ==
    IF r.err # "" THEN [acc EXCEPT !.h = r.h, !.err = r.err]
    ELSE [h |-> r.h, parts |-> Append(acc.parts, r.sql), params |-> acc.params \o r.params,
          err |-> ""]

AppendPart(acc, r, skip) ==
    IF r.err = "EmptyResultSet" /\ skip THEN [acc EXCEPT !.h = r.h]
    ELSE IF r.err # "" THEN [acc EXCEPT !.h = r.h, !.err = r.err]
    ELSE [h |-> r.h, parts |-> Append(acc.parts, r.sql), params |-> acc.params \o r.params,
          err |-> ""]

\* for arg in ids: compile(arg), collected in acc = [h, parts, params, err]
CompileAll(acc, ids, v, skip) ==
    IF acc.err # "" THEN acc
    ELSE IF ids = <<>> THEN acc
    ELSE CompileAll(AppendPart(acc, Compile(acc.h, Head(ids), v), skip), Tail(ids), v, skip)

NoParts(h) == [h |-> h, parts |-> <<>>, params |-> <<>>, err |-> ""]

\* Func.template and Func.arg_joiner, the class-level defaults.  A template
\* is a sequence of tokens, two of which are the named placeholders.
FuncTemplate == <<"%(function)s", "(", "%(expressions)s", ")">>
FuncArgJoiner == <<",">>

\* self.extra and the keyword arguments of as_sql are sequences of
\* [key, val], val a sequence of tokens; <<>> as an argument is None.
HasKey(extra, key) == \E i \in 1..Len(extra) : extra[i].key = key

\* data.get(key, default)
ExtraGet(extra, key, default) ==
    IF HasKey(extra, key)
    THEN extra[CHOOSE i \in 1..Len(extra) : extra[i].key = key].val
    ELSE default

RECURSIVE Substitute(_, _, _)
\* template % data, data holding function and expressions
Substitute(template, function, expressions) ==
    IF template = <<>> THEN <<>>
    ELSE (CASE Head(template) = "%(function)s" -> function
            [] Head(template) = "%(expressions)s" -> expressions
            [] OTHER -> <<Head(template)>>)
         \o Substitute(Tail(template), function, expressions)

\* Lines 563-576 of Func.as_sql with the extra of __init__ looked up before
\* the arguments of the call.
Func_render_extra_first(n, function, template, arg_joiner, a) ==
    IF a.err # "" THEN RRaise(a.h, a.err)
    ELSE RRet(a.h,
              Substitute(ExtraGet(n.extra, "template",
                                  IF template # <<>> THEN template ELSE FuncTemplate),
                         ExtraGet(n.extra, "function",
                                  IF function # <<>> THEN function ELSE <<n.function>>),
                         JoinWith(a.parts,
                                  ExtraGet(n.extra, "arg_joiner",
                                           IF arg_joiner # <<>> THEN arg_joiner
                                           ELSE FuncArgJoiner))),
              a.params)

\* Lines 563-576 of Func.as_sql: data = self.extra.copy(); function, template
\* and arg_joiner from the argument, else from data, else from the class;
\* template % data.  a holds the compiled arguments.
Func_render(n, function, template, arg_joiner, a) ==
    IF a.err # "" THEN RRaise(a.h, a.err)
    ELSE RRet(a.h,
              Substitute(IF template # <<>> THEN template
                         ELSE ExtraGet(n.extra, "template", FuncTemplate),
                         IF function # <<>> THEN function
                         ELSE ExtraGet(n.extra, "function", <<n.function>>),
                         JoinWith(a.parts,
                                  IF arg_joiner # <<>> THEN arg_joiner
                                  ELSE ExtraGet(n.extra, "arg_joiner", FuncArgJoiner))),
              a.params)

\* Func.as_sql(compiler, connection, function, template, arg_joiner)
Func_as_sql_with(h, id, v, function, template, arg_joiner) ==
    Func_render(h.nodes[id], function, template, arg_joiner,
                CompileAll(NoParts(h), h.lists[h.nodes[id].source_expressions], v, FALSE))

Func_as_sql(h, id, v) == Func_as_sql_with(h, id, v, <<>>, <<>>, <<>>)

Func_cast(r, o) ==
    IF o.val # NoField /\ GetInternalType(o.val) = "DecimalField"
    THEN RRet(o.h, <<"CAST(">> \o r.sql \o <<"AS NUMERIC)">>, r.params)
    ELSE RRet(o.h, r.sql, r.params)

Func_as_sqlite_cast(id, r) ==
    IF r.err # "" THEN r ELSE Func_cast(r, TryOutputField(OutputField(r.h, id)))

Func_as_sqlite(h, id, v) == Func_as_sqlite_cast(id, Func_as_sql(h, id, v))

When_template(c, r) ==
    IF r.err # "" THEN r
    ELSE RRet(r.h, <<"WHEN">> \o c.sql \o <<"THEN">> \o r.sql, c.params \o r.params)

When_result(id, v, c) ==
    IF c.err # "" THEN c ELSE When_template(c, Compile(c.h, c.h.nodes[id].result, v))

When_as_sql(h, id, v) == When_result(id, v, Compile(h, h.nodes[id].condition, v))

\* sql = unification_cast_sql(self.output_field) % sql
Case_cast(v, r, o) ==
    IF o.err # "" THEN RRaise(o.h, o.err)
    ELSE RRet(o.h, UnificationCastSql(v, o.val, r.sql), r.params)

\* Case.as_sql without the cast of 905-906.
Case_typed_uncast(id, v, r, o) ==
    IF o.err # "" THEN RRaise(o.h, o.err) ELSE RRet(o.h, r.sql, r.params)

\* if self._output_field_or_none is not None: ...
Case_typed(id, v, r, o) ==
    IF o.err # "" THEN RRaise(o.h, o.err)
    ELSE IF o.val # NoField THEN Case_cast(v, r, OutputField(o.h, id))
    ELSE RRet(o.h, r.sql, r.params)

Case_template(id, v, r) == Case_typed(id, v, r, OutputFieldOrNone(r.h, id))

\* Case.as_sql without the "if not case_parts" test of 897-898: the template
\* is filled in whatever the when-list compiled to.
Case_default_always_template(id, v, cs, d) ==
    IF d.err # "" THEN d
    ELSE Case_template(id, v, RRet(d.h, <<"CASE">> \o JoinWith(cs.parts, <<>>) \o <<"ELSE">>
                                          \o d.sql \o <<"END">>,
                                   cs.params \o d.params))

Case_default(id, v, cs, d) ==
    IF d.err # "" THEN d
    ELSE IF cs.parts = <<>> THEN d
    ELSE Case_template(id, v, RRet(d.h, <<"CASE">> \o JoinWith(cs.parts, <<>>) \o <<"ELSE">>
                                          \o d.sql \o <<"END">>,
                                   cs.params \o d.params))

Case_cases(id, v, cs) ==
    IF cs.err # "" THEN RRaise(cs.h, cs.err)
    ELSE Case_default(id, v, cs, Compile(cs.h, cs.h.nodes[id].default, v))

Case_as_sql(h, id, v) ==
    IF h.lists[h.nodes[id].cases] = <<>> THEN Compile(h, h.nodes[id].default, v)
    ELSE Case_cases(id, v, CompileAll(NoParts(h), h.lists[h.nodes[id].cases], v, TRUE))

Col_as_sql(h, id, v) ==
    RRet(h, QuoteName(h.nodes[id].alias) \o <<".">> \o QuoteName("column"), <<>>)

Ref_as_sql(h, id, v) == RRet(h, QuoteName(h.nodes[id].refs), <<>>)

\* self.expression.as_sql(compiler, connection): not through the compiler.
ExpressionWrapper_as_sql(h, id, v) == AsSql(h, h.nodes[id].expression, v)

\* A resolved outer reference renders as the name it holds.
ResolvedOuterRef_as_sql_as_name(h, id, v) == RRet(h, <<h.nodes[id].name>>, <<>>)

ResolvedOuterRef_as_sql(h, id, v) == RRaise(h, "ValueError")

\* lhs = rhs of one lookup; a plain right-hand side is a bind parameter.
Lookup_rhs(w, v, l) ==
    IF l.err # "" THEN [NoParts(l.h) EXCEPT !.err = l.err]
    ELSE IF w.rhs = 0 THEN AppendPart(NoParts(l.h), RRet(l.h, l.sql \o <<"=", "%s">>,
                                                          l.params \o <<PyInt(0)>>), FALSE)
    ELSE AppendPart(NoParts(l.h), Combined_wrap("=", l, Compile(l.h, w.rhs, v)), FALSE)

\* The parts of acc followed by those of r.
ExtendParts(acc, r) ==
    IF r.err # "" THEN [acc EXCEPT !.h = r.h, !.err = r.err]
    ELSE [h |-> r.h, parts |-> acc.parts \o r.parts, params |-> acc.params \o r.params,
          err |-> ""]

WhereTreeRest(first, w, v) ==
    IF first.err # "" THEN first ELSE ExtendParts(first, WhereTreeAsSql(first.h, w, v))

\* The lookups of a filter tree, compiled in tree order: [h, parts, params, err].
WhereTreeAsSql(h, w, v) ==
    IF w.t = "L" THEN Lookup_rhs(w, v, Compile(h, w.lhs, v))
    ELSE IF w.children = <<>> THEN NoParts(h)
    ELSE WhereTreeRest(WhereTreeAsSql(h, Head(w.children), v),
                       [w EXCEPT !.children = Tail(@)], v)

OrderByClause(order_by) == IF order_by = <<>> THEN <<>> ELSE <<"ORDER BY">> \o order_by

Query_select(q, as, w) ==
    IF w.err # "" THEN RRaise(w.h, w.err)
    ELSE RRet(w.h, <<"SELECT">> \o JoinWith(as.parts, <<",">>) \o <<"FROM", q.alias_prefix>>
                   \o (IF w.parts = <<>> THEN <<>> ELSE <<"WHERE">>)
                   \o JoinWith(w.parts, <<"AND">>) \o OrderByClause(q.order_by),
              as.params \o w.params)

Query_where(q, v, as) ==
    IF as.err # "" THEN RRaise(as.h, as.err)
    ELSE Query_select(q, as, WhereTreeAsSql(as.h, q.where, v))

\* queryset.query.get_compiler(connection=connection).as_sql()
Query_as_sql(h, qs, v) ==
    Query_where(h.qsets[qs], v,
                CompileAll(NoParts(h), AnnotationValues(h.qsets[qs]), v, FALSE))

Subquery_cast(v, sql, params, o) ==
    IF o.err # "" THEN RRaise(o.h, o.err)
    ELSE RRet(o.h, UnificationCastSql(v, o.val, sql), params)

\* template % template_params, then the unification cast
Subquery_template(id, v, open, sub) ==
    IF sub.err # "" THEN sub
    ELSE Subquery_cast(v, <<open>> \o sub.sql \o <<")">>, sub.params, OutputField(sub.h, id))

Subquery_as_sql(h, id, v) ==
    Subquery_template(id, v, IF h.nodes[id].cls = "Exists" THEN "EXISTS(" ELSE "(",
                      Query_as_sql(h, h.nodes[id].queryset, v))

Exists_negate(negated, r) ==
    IF r.err # "" THEN r
    ELSE IF negated THEN RRet(r.h, <<"NOT">> \o r.sql, r.params)
    ELSE r

Exists_as_sql(h, id, v) == Exists_negate(h.nodes[id].negated, Subquery_as_sql(h, id, v))

Exists_case_when(r) ==
    IF r.err # "" THEN r
    ELSE RRet(r.h, <<"CASE WHEN">> \o r.sql \o <<"THEN 1 ELSE 0 END">>, r.params)

Exists_as_oracle(h, id, v) == Exists_case_when(Exists_as_sql(h, id, v))

Ordering(n) == IF n.descending THEN "DESC" ELSE "ASC"

RECURSIVE Rstrip(_)
\* str.rstrip(): tokens are joined by a space, so a space at the end of the
\* text is an empty last token.
Rstrip(sql) ==
    IF sql # <<>> /\ sql[Len(sql)] = "" THEN Rstrip(SubSeq(sql, 1, Len(sql) - 1)) ELSE sql

\* (template % placeholders).rstrip() without the rstrip().
OrderBy_template_unstripped(n, template, e) ==
    CASE template = "sqlite" /\ n.nulls_last ->
            e \o <<"IS NULL,">> \o e \o <<Ordering(n)>>
      [] template = "sqlite" /\ n.nulls_first ->
            e \o <<"IS NOT NULL,">> \o e \o <<Ordering(n)>>
      [] template = "mysql" /\ n.nulls_last ->
            <<"IF(ISNULL(">> \o e \o <<"),1,0),">> \o e \o <<Ordering(n), "">>
      [] template = "mysql" /\ n.nulls_first ->
            <<"IF(ISNULL(">> \o e \o <<"),0,1),">> \o e \o <<Ordering(n), "">>
      [] OTHER ->
            IF n.nulls_last THEN e \o <<Ordering(n), "NULLS LAST">>
            ELSE IF n.nulls_first THEN e \o <<Ordering(n), "NULLS FIRST">>
            ELSE e \o <<Ordering(n)>>

\* (template % placeholders).rstrip() for the templates of OrderBy; template
\* is the dialect whose template was passed, "" for none.
OrderBy_template(n, template, e) ==
    Rstrip(CASE template = "sqlite" /\ n.nulls_last ->
                   e \o <<"IS NULL,">> \o e \o <<Ordering(n)>>
             [] template = "sqlite" /\ n.nulls_first ->
                   e \o <<"IS NOT NULL,">> \o e \o <<Ordering(n)>>
             [] template = "mysql" /\ n.nulls_last ->
                   <<"IF(ISNULL(">> \o e \o <<"),1,0),">> \o e \o <<Ordering(n), "">>
             [] template = "mysql" /\ n.nulls_first ->
                   <<"IF(ISNULL(">> \o e \o <<"),0,1),">> \o e \o <<Ordering(n), "">>
             [] OTHER ->
                   IF n.nulls_last THEN e \o <<Ordering(n), "NULLS LAST">>
                   ELSE IF n.nulls_first THEN e \o <<Ordering(n), "NULLS FIRST">>
                   ELSE e \o <<Ordering(n)>>)

OrderBy_render(n, template, e) ==
    IF e.err # "" THEN e ELSE RRet(e.h, OrderBy_template(n, template, e.sql), e.params)

\* OrderBy.as_sql(compiler, connection, template=template)
OrderBy_as_sql(h, id, v, template) ==
    OrderBy_render(h.nodes[id], template, Compile(h, h.nodes[id].expression, v))

OrderBy_as_sqlite(h, id, v) == OrderBy_as_sql(h, id, v, "sqlite")

OrderBy_as_mysql(h, id, v) == OrderBy_as_sql(h, id, v, "mysql")

\* node.as_sql(compiler, connection)
AsSql(h, id, v) ==
    CASE h.nodes[id].cls = "Value" -> Value_as_sql(h, id, v)
      [] h.nodes[id].cls = "DurationValue" -> DurationValue_as_sql(h, id, v)
      [] h.nodes[id].cls = "CombinedExpression" -> CombinedExpression_as_sql(h, id, v)
      [] h.nodes[id].cls = "Func" -> Func_as_sql(h, id, v)
      [] h.nodes[id].cls = "When" -> When_as_sql(h, id, v)
      [] h.nodes[id].cls = "Case" -> Case_as_sql(h, id, v)
      [] h.nodes[id].cls = "Col" -> Col_as_sql(h, id, v)
      [] h.nodes[id].cls = "Ref" -> Ref_as_sql(h, id, v)
      [] h.nodes[id].cls = "ExpressionWrapper" -> ExpressionWrapper_as_sql(h, id, v)
      [] h.nodes[id].cls = "ResolvedOuterRef" -> ResolvedOuterRef_as_sql(h, id, v)
      [] h.nodes[id].cls = "Subquery" -> Subquery_as_sql(h, id, v)
      [] h.nodes[id].cls = "Exists" -> Exists_as_sql(h, id, v)
      [] h.nodes[id].cls = "OrderBy" -> OrderBy_as_sql(h, id, v, "")
      [] h.nodes[id].cls = "WhereNode" -> WhereNode_as_sql(h, id, v)
      [] OTHER -> RRaise(h, "AttributeError")

\* compiler.compile(node): as_<vendor> when the node has one, else as_sql.
Compile(h, id, v) ==
    CASE h.nodes[id].cls = "Func" /\ v = "sqlite" -> Func_as_sqlite(h, id, v)
      [] h.nodes[id].cls = "Exists" /\ v = "oracle" -> Exists_as_oracle(h, id, v)
      [] h.nodes[id].cls = "OrderBy" /\ v = "sqlite" -> OrderBy_as_sqlite(h, id, v)
      [] h.nodes[id].cls = "OrderBy" /\ v = "mysql" -> OrderBy_as_mysql(h, id, v)
      [] OTHER -> AsSql(h, id, v)

----------------------------------------------------------------------------
(* The calls the caller writes.                                            *)

IntegerField == Field("IntegerField", 1)
FloatField == Field("FloatField", 2)
DateField == Field("DateField", 3)
DateTimeField == Field("DateTimeField", 4)
DurationField == Field("DurationField", 6)
DecimalField == Field("DecimalField", 7)

PValue(v, of) == [c |-> "Value", cls |-> "Value", value |-> v, output_field |-> of]
PRawSQL(sql, params, of) == [c |-> "RawSQL", sql |-> sql, params |-> params, output_field |-> of]
PF(name) == [c |-> "F", cls |-> "F", name |-> name]
POuterRef(name) == [c |-> "F", cls |-> "OuterRef", name |-> name]
PResolvedOuterRef(name) == [c |-> "F", cls |-> "ResolvedOuterRef", name |-> name]
POuterRefOf(inner) == [c |-> "OuterRef", inner |-> inner]
PQ(lookup, empty) == [c |-> "Q", lookup |-> lookup, empty |-> empty]
PCol(alias, target) == [c |-> "Col", alias |-> alias, target |-> target, output_field |-> NoField]
PConst == [c |-> "const"]
PCombined(lhs, connector, rhs) ==
    [c |-> "CombinedExpression", lhs |-> lhs, connector |-> connector, rhs |-> rhs,
     output_field |-> NoField]
PFunc(fcls, expressions) ==
    [c |-> "Func", fcls |-> fcls, expressions |-> expressions, output_field |-> NoField]
PFuncOf(fcls, expressions, of) ==
    [c |-> "Func", fcls |-> fcls, expressions |-> expressions, output_field |-> of]
PDurationValue(v, of) == [c |-> "Value", cls |-> "DurationValue", value |-> v, output_field |-> of]
PWhen(condition, then) == [c |-> "When", condition |-> condition, then |-> then]
PCase(cases, default, of) ==
    [c |-> "Case", cases |-> cases, default |-> default, output_field |-> of]
PRef(refs, source) == [c |-> "Ref", refs |-> refs, source |-> source]
PExpressionWrapper(expression, of) ==
    [c |-> "ExpressionWrapper", expression |-> expression, output_field |-> of]
POrderBy(expression, descending, nulls_first, nulls_last) ==
    [c |-> "OrderBy", expression |-> expression, descending |-> descending,
     nulls_first |-> nulls_first, nulls_last |-> nulls_last]
PSubquery(cls, queryset, negated) ==
    [c |-> "Subquery", cls |-> cls, queryset |-> queryset, negated |-> negated,
     output_field |-> NoField]
PQset(where, annotations, order_by) ==
    [alias_prefix |-> "T", where |-> where, annotations |-> annotations,
     order_by |-> order_by, select |-> <<IntegerField>>]

\* Func classes: the base class and one with a fixed arity.
FuncClass == [function |-> "FUNC", arity |-> -1]
Arity1Class == [function |-> "LOWER", arity |-> 1]


\* Nested querysets.  Their filter operands are what filter() stored: outer
\* references already wrapped as ResolvedOuterRef, columns, plain values.
InnerCol == PCol("T1", IntegerField)
QsetById(order_by) ==
    PQset([t |-> "W", children |-> <<[t |-> "L", lhs |-> InnerCol,
                                      rhs |-> PResolvedOuterRef("id")]>>],
          <<>>, order_by)
QsetDeep(order_by) ==
    PQset([t |-> "W", children |->
             <<[t |-> "L", lhs |-> InnerCol, rhs |-> PConst],
               [t |-> "W", children |-> <<[t |-> "L", lhs |-> InnerCol,
                                           rhs |-> PResolvedOuterRef("id")]>>],
               [t |-> "L", lhs |-> InnerCol, rhs |-> PResolvedOuterRef("name")]>>],
          <<>>, order_by)
QsetAnnotated(order_by) ==
    PQset([t |-> "W", children |-> <<[t |-> "L", lhs |-> InnerCol,
                                      rhs |-> PValue(PyInt(3), NoField)]>>],
          <<[key |-> "n", value |-> PSubquery("Subquery", QsetById(<<>>), FALSE)]>>,
          order_by)
QsetEmpty(order_by) == PQset([t |-> "W", children |-> <<>>], <<>>, order_by)

Orderings == {<<>>, <<"name">>}

SubqueryPrograms ==
    {PSubquery(cls, q, FALSE) :
        cls \in {"Subquery", "Exists"},
        q \in {QsetById(o) : o \in Orderings} \cup {QsetDeep(o) : o \in Orderings}
              \cup {QsetAnnotated(o) : o \in Orderings} \cup {QsetEmpty(<<"name">>)}}

LeafPrograms ==
    {PValue(PyInt(3), NoField), PValue(PyInt(3), IntegerField), PF("id"), PF("name"),
     POuterRef("id"), POuterRefOf(POuterRef("id")), PResolvedOuterRef("id"),
     PResolvedOuterRef("name")}

CompositePrograms ==
    {PCombined(PValue(PyInt(3), NoField), "+", PF("id")),
     PCombined(PF("name"), "-", PValue(PyInt(4), IntegerField)),
     PFunc(FuncClass, <<PF("id"), PValue(PyInt(3), NoField)>>),
     PFunc(FuncClass, <<>>),
     PWhen(PQ("a", FALSE), PValue(PyInt(1), NoField)),
     PCase(<<PWhen(PQ("a", FALSE), PF("id")), PWhen(PQ("b", TRUE), PValue(PyInt(2), NoField))>>,
           PValue(PyInt(0), NoField), NoField),
     PCase(<<>>, PValue(PyInt(1), NoField), IntegerField),
     PRef("total", PValue(PyInt(3), NoField)),
     PExpressionWrapper(PValue(PyInt(3), NoField), IntegerField),
     PExpressionWrapper(PF("name"), IntegerField),
     POrderBy(PF("name"), TRUE, FALSE, FALSE),
     POrderBy(PValue(PyInt(3), NoField), FALSE, FALSE, TRUE)}

Programs == LeafPrograms \cup CompositePrograms \cup SubqueryPrograms

----------------------------------------------------------------------------
(* State: the heap, the node the caller constructed (root), the last call   *)
(* with its outcome (last), the number of calls made (nops), the            *)
(* resolutions in progress (thr) and the calls made so far with their       *)
(* outcomes (hist).                                                         *)

NoCall ==
    [op |-> "construct", recv |-> 0, query |-> "", summarize |-> FALSE, for_save |-> FALSE,
     res |-> 0, err |-> "", refs |-> <<>>, pre |-> <<>>, sources |-> <<>>,
     val |-> NoField, vendor |-> "", sql |-> <<>>, params |-> <<>>,
     other |-> 0, ret |-> PyNone, hashes |-> <<>>]

Idle == [pc |-> "idle", clone |-> 0, err |-> ""]

\* The state after the constructor call p, r its outcome.
ConstructedAs(p, r) ==
    /\ heap = r.h
    /\ root = r.res
    /\ last = [NoCall EXCEPT !.res = r.res, !.err = r.err,
                             !.pre = IF r.res = 0 THEN <<>> ELSE <<Snapshot(r.h, r.res)>>]
    /\ nops = 0
    /\ hist = <<>>
    /\ thr = [q \in OuterQueries |-> Idle]

Constructed(p) == ConstructedAs(p, Build(EmptyHeap, p))

Init == \E p \in Programs : Constructed(p)

\* The nodes a caller holds: the constructed one and the last result.
Held == {root, last.res} \ {0}

\* The record of a call on recv: its outcome r, and the receiver as it was
\* before the call (pre, sources).
Called(op, recv) ==
    [NoCall EXCEPT !.op = op, !.recv = recv, !.res = last.res,
                   !.pre = <<Snapshot(heap, recv)>>,
                   !.sources = GetSourceExpressions(heap, recv)]

Call(op, recv, r) == [Called(op, recv) EXCEPT !.res = r.res, !.err = r.err]

ResolveReturns(id, a, r) ==
    /\ heap' = r.h
    /\ last' = [Call("resolve", id, r) EXCEPT !.query = a.query, !.summarize = a.summarize,
                                              !.for_save = a.for_save, !.refs = r.refs]

\* node.resolve_expression(query, summarize=..., for_save=...)
Resolve(id, q, summarize, for_save) ==
    /\ nops < MaxOps
    /\ HasResolveExpression(heap, id)
    /\ ResolveReturns(id, ResolveArgs(q, summarize, for_save),
                      ResolveExpression(heap, id, ResolveArgs(q, summarize, for_save)))
    /\ nops' = nops + 1
    /\ UNCHANGED <<root, thr, hist>>

RoundTripReturns(id, r) ==
    /\ heap' = r.h
    /\ last' = [Called("roundtrip", id) EXCEPT !.err = r.err]

\* node.set_source_expressions(node.get_source_expressions())
RoundTrip(id) ==
    /\ nops < MaxOps
    /\ IsBaseExpression(heap.nodes[id])
    /\ RoundTripReturns(id, SetSourceExpressions(heap, id, GetSourceExpressions(heap, id)))
    /\ nops' = nops + 1
    /\ UNCHANGED <<root, thr, hist>>

Next ==
    \/ \E id \in Held, q \in OuterQueries, summarize \in BOOLEAN, for_save \in BOOLEAN :
            Resolve(id, q, summarize, for_save)
    \/ \E id \in Held : RoundTrip(id)

Spec == Init /\ [][Next]_vars

----------------------------------------------------------------------------
(* Requests for the output type.  TypePrograms are trees as they are after  *)
(* resolution: literal values, with and without a declared type, and        *)
(* columns.                                                                 *)

\* Number of output-type calls made after construction.
MaxTypeOps == 3

IntegerField2 == Field("IntegerField", 5)

TypePrograms ==
    {PValue(PyInt(3), NoField),
     PValue(PyInt(3), IntegerField),
     PFunc(FuncClass, <<>>),
     PCol("T1", FloatField),
     PCombined(PValue(PyInt(3), IntegerField), "+", PValue(PyInt(4), FloatField)),
     PCombined(PValue(PyInt(4), FloatField), "+", PValue(PyInt(3), IntegerField)),
     PCombined(PValue(PyInt(3), IntegerField), "+", PValue(PyInt(4), IntegerField2)),
     PCombined(PValue(PyInt(3), NoField), "+", PValue(PyInt(4), IntegerField)),
     PCombined(PValue(PyInt(3), IntegerField), "+", PValue(PyInt(4), NoField)),
     PCombined(PValue(PyInt(3), NoField), "+", PValue(PyInt(4), NoField)),
     PFunc(FuncClass, <<PValue(PyInt(1), IntegerField), PValue(PyInt(2), NoField),
                        PCol("T1", FloatField)>>),
     PFunc(FuncClass, <<PCol("T1", FloatField), PValue(PyInt(2), FloatField)>>),
     PCase(<<PWhen(PQ("a", FALSE), PValue(PyInt(1), IntegerField))>>,
           PValue(PyInt(0), FloatField), NoField),
     PCase(<<PWhen(PQ("a", FALSE), PValue(PyInt(1), IntegerField))>>,
           PValue(PyInt(0), FloatField), DateField),
     PExpressionWrapper(PCombined(PValue(PyInt(3), IntegerField), "+",
                                  PValue(PyInt(4), FloatField)), IntegerField)}

InitOutput == \E p \in TypePrograms : Constructed(p)

RequestReturns(id, r) ==
    /\ heap' = r.h
    /\ last' = [Called("output_field", id) EXCEPT !.val = r.val, !.err = r.err]
    /\ hist' = Append(hist, [op |-> "output_field", recv |-> id, val |-> r.val, err |-> r.err])

\* node.output_field
RequestOutputField(id) ==
    /\ nops < MaxTypeOps
    /\ RequestReturns(id, OutputField(heap, id))
    /\ nops' = nops + 1
    /\ UNCHANGED <<root, thr>>

\* node._output_field = f
SetOutputField(id, f) ==
    /\ nops < MaxTypeOps
    /\ IsBaseExpression(heap.nodes[id])
    /\ heap' = [heap EXCEPT !.nodes[id]._output_field = f]
    /\ last' = [Called("set_output_field", id) EXCEPT !.val = f]
    /\ hist' = Append(hist, [op |-> "set_output_field", recv |-> id, val |-> f, err |-> ""])
    /\ nops' = nops + 1
    /\ UNCHANGED <<root, thr>>

NextOutput ==
    \/ \E id \in NodeIds(heap) : RequestOutputField(id)
    \/ \E f \in {IntegerField, FloatField} : SetOutputField(root, f)

SpecOutput == InitOutput /\ [][NextOutput]_vars

----------------------------------------------------------------------------
(* Comparisons: two nodes are constructed and compared with ==, their       *)
(* hashes taken.                                                            *)

EqPrograms ==
    {PValue(PyInt(5), NoField),
     PValue(PyInt(5), IntegerField),
     PValue(PyInt(5), IntegerField2),
     PValue(PyInt(5), FloatField),
     PValue(PyInt(6), NoField),
     PRawSQL("now()", <<>>, NoField),
     PRawSQL("now()", <<>>, IntegerField),
     PRawSQL("now()", <<>>, IntegerField2),
     PRawSQL("id + %s", <<PyInt(5)>>, NoField),
     PF("id"), PF("name"), POuterRef("id"), POuterRefOf(POuterRef("id")),
     PCol("T1", IntegerField), PCol("T1", FloatField),
     PCombined(PValue(PyInt(5), NoField), "+", PF("id")),
     PCombined(PValue(PyInt(5), IntegerField), "+", PF("id")),
     PCombined(PValue(PyInt(5), FloatField), "+", PF("id")),
     PCombined(PValue(PyInt(5), NoField), "-", PF("id")),
     PFunc(FuncClass, <<PF("id")>>),
     PFunc(Arity1Class, <<PF("id")>>),
     PCase(<<>>, PValue(PyInt(5), NoField), NoField),
     PCase(<<>>, PValue(PyInt(5), NoField), IntegerField),
     PCase(<<>>, PValue(PyInt(6), NoField), NoField),
     PExpressionWrapper(PValue(PyInt(5), NoField), IntegerField),
     PExpressionWrapper(PValue(PyInt(5), NoField), FloatField),
     POrderBy(PF("name"), TRUE, FALSE, FALSE),
     POrderBy(PF("name"), FALSE, FALSE, FALSE)}

\* The state after two constructor calls, r1 and r2 their outcomes.
ConstructedPair(r1, r2) ==
    /\ heap = r2.h
    /\ root = r1.res
    /\ last = [NoCall EXCEPT !.res = r2.res]
    /\ nops = 0
    /\ hist = <<>>
    /\ thr = [q \in OuterQueries |-> Idle]

ConstructedAfter(r1, p2) == ConstructedPair(r1, Build(r1.h, p2))

InitEq == \E p1 \in EqPrograms, p2 \in EqPrograms : ConstructedAfter(Build(EmptyHeap, p1), p2)

\* a == b, hash(a), hash(b)
Compare(a, b) ==
    /\ nops < MaxOps
    /\ last' = [NoCall EXCEPT !.op = "eq", !.recv = a, !.other = b, !.res = last.res,
                              !.ret = PyBool(Eq(heap, a, b)),
                              !.hashes = <<HashOf(heap, a), HashOf(heap, b)>>]
    /\ nops' = nops + 1
    /\ UNCHANGED <<heap, root, thr, hist>>

NextEq == \E a \in Held, b \in Held : Compare(a, b)

SpecEq == InitEq /\ [][NextEq]_vars

----------------------------------------------------------------------------
(* Rendering: a node is resolved and compiled for a connection, or its      *)
(* as_sql is called directly.                                               *)

RenderPrograms ==
    {PValue(PyInt(3), NoField), PValue(PyInt(3), IntegerField), PValue(PyInt(3), FloatField),
     PValue(PyNone, NoField),
     PCombined(PValue(PyInt(3), NoField), "+", PValue(PyInt(4), NoField)),
     PCombined(PF("id"), "+", PValue(PyInt(3), NoField)),
     PCombined(PCol("T1", DurationField), "+", PDurationValue(PyTimedelta(1), DurationField)),
     PCombined(PCol("T1", DateField), "-", PCol("T1", DateField)),
     PFunc(FuncClass, <<PF("id"), PValue(PyInt(3), NoField)>>),
     PFunc(Arity1Class, <<PValue(PyInt(3), NoField)>>),
     PFuncOf(FuncClass, <<PValue(PyInt(3), NoField), PValue(PyInt(4), NoField)>>, DecimalField),
     PWhen(PQ("a", FALSE), PValue(PyInt(1), NoField)),
     PWhen(PQ("b", TRUE), PValue(PyInt(1), NoField)),
     PCase(<<PWhen(PQ("a", FALSE), PF("id")), PWhen(PQ("b", TRUE), PValue(PyInt(2), NoField))>>,
           PValue(PyInt(0), NoField), NoField),
     PCase(<<PWhen(PQ("b", TRUE), PValue(PyInt(2), NoField))>>, PValue(PyInt(0), NoField),
           NoField),
     PCase(<<PWhen(PQ("a", FALSE), PValue(PyInt(1), NoField))>>, PValue(PyInt(0), NoField),
           IntegerField),
     PCase(<<>>, PValue(PyInt(1), NoField), NoField),
     PRef("total", PValue(PyInt(3), NoField)),
     PExpressionWrapper(PValue(PyInt(3), NoField), IntegerField),
     PExpressionWrapper(PF("name"), IntegerField),
     POrderBy(PF("name"), TRUE, FALSE, FALSE),
     POrderBy(PF("id"), FALSE, FALSE, TRUE),
     POrderBy(PValue(PyInt(3), NoField), FALSE, FALSE, TRUE),
     POrderBy(PValue(PyInt(3), NoField), TRUE, TRUE, FALSE),
     POrderBy(PValue(PyInt(3), NoField), FALSE, FALSE, FALSE),
     POuterRef("id"), PResolvedOuterRef("id"),
     PSubquery("Subquery", QsetById(<<>>), FALSE),
     PSubquery("Subquery", QsetAnnotated(<<>>), FALSE),
     PSubquery("Exists", QsetById(<<"name">>), TRUE),
     PSubquery("Exists", QsetEmpty(<<>>), FALSE)}

InitRender == \E p \in RenderPrograms : Constructed(p)

Rendered(op, id, v, r) ==
    /\ heap' = r.h
    /\ last' = [Called(op, id) EXCEPT !.vendor = v, !.sql = r.sql, !.params = r.params,
                                      !.err = r.err]

\* compiler.compile(node) on a connection of vendor v
CompileNode(id, v) ==
    /\ nops < MaxOps
    /\ Rendered("compile", id, v, Compile(heap, id, v))
    /\ nops' = nops + 1
    /\ UNCHANGED <<root, thr, hist>>

\* node.as_sql(compiler, connection)
RenderDirect(id, v) ==
    /\ nops < MaxOps
    /\ Rendered("as_sql", id, v, AsSql(heap, id, v))
    /\ nops' = nops + 1
    /\ UNCHANGED <<root, thr, hist>>

NextRender ==
    \/ \E id \in Held, q \in OuterQueries, for_save \in BOOLEAN : Resolve(id, q, FALSE, for_save)
    \/ \E id \in Held, v \in Vendors : CompileNode(id, v)
    \/ \E id \in Held, v \in Vendors : RenderDirect(id, v)

SpecRender == InitRender /\ [][NextRender]_vars

----------------------------------------------------------------------------
(* One Subquery resolved against the two outer queries, the two             *)
(* resolutions interleaved at the statements of Subquery.resolve_expression:*)
(* copy and bump_prefix, resolve_all(where), the annotations loop.          *)

InitConc == \E p \in SubqueryPrograms : Constructed(p)

ConcArgs(q) == ResolveArgs(q, FALSE, FALSE)

\* The receiver as Subquery.resolve_expression finds it: Exists has
\* rebound its queryset first.
ConcReceiver(h, id) == IF h.nodes[id].cls = "Exists" THEN Exists_strip_ordering(h, id) ELSE h

Step(q, stmt) == [op |-> stmt, recv |-> root, val |-> NoField, err |-> "", query |-> q]

ConcBegun(q, c) ==
    /\ heap' = c.h
    /\ thr' = [thr EXCEPT ![q] = [pc |-> "begun", clone |-> c.res, err |-> ""]]

ConcBegin(q) ==
    /\ thr[q].pc = "idle"
    /\ ConcBegun(q, Subquery_resolve_begin(ConcReceiver(heap, root), root, ConcArgs(q)))
    /\ hist' = Append(hist, Step(q, "begin"))
    /\ UNCHANGED <<root, last, nops>>

ConcStepped(q, pc, c) ==
    /\ heap' = c.h
    /\ thr' = [thr EXCEPT ![q].pc = IF c.err = "" THEN pc ELSE "failed", ![q].err = c.err]

ConcWhere(q) ==
    /\ thr[q].pc = "begun"
    /\ ConcStepped(q, "where_done", Subquery_resolve_where(Ret(heap, thr[q].clone), ConcArgs(q)))
    /\ hist' = Append(hist, Step(q, "where"))
    /\ UNCHANGED <<root, last, nops>>

ConcAnnotations(q) ==
    /\ thr[q].pc = "where_done"
    /\ ConcStepped(q, "done",
                   Subquery_resolve_annotations(Ret(heap, thr[q].clone), ConcArgs(q)))
    /\ hist' = Append(hist, Step(q, "annotations"))
    /\ UNCHANGED <<root, last, nops>>

NextConc ==
    \/ \E q \in OuterQueries : ConcBegin(q)
    \/ \E q \in OuterQueries : ConcWhere(q)
    \/ \E q \in OuterQueries : ConcAnnotations(q)

SpecConc == InitConc /\ [][NextConc]_vars

----------------------------------------------------------------------------
(* Claims about resolve_expression and the source-expression protocol.      *)

\* The receiver of the last call as it was before the call.
Before == last.pre[1]

\* C1: resolve never mutates the receiver: after the call, whether it
\* returned or raised, every field of the receiver, its children, its child
\* sequence and the nested query it holds (ordering included) are as before.
C1_ResolveLeavesReceiverUnchanged ==
    last.op = "resolve" => Snapshot(heap, last.recv) = Before

\* C6: the node resolve returns has as many source expressions as the
\* receiver had.
C6_ResolveKeepsSourceCount ==
    (last.op = "resolve" /\ last.err = "")
        => Len(GetSourceExpressions(heap, last.res)) = Len(last.sources)

\* C6 witness: a Case with two When clauses and a default (three sources),
\* itself the result of a resolve, was resolved.
C6_Witness ==
    /\ last.op = "resolve" /\ last.err = ""
    /\ last.recv # root
    /\ Before.node.cls = "Case"
    /\ Len(last.sources) = 3

\* C7: set_source_expressions(get_source_expressions()) succeeds on every
\* node and leaves it with the same children in the same order.
C7_RoundTripKeepsChildren ==
    last.op = "roundtrip"
        => /\ last.err = ""
           /\ GetSourceExpressions(heap, last.recv) = last.sources


\* C9 as stated: resolving an unresolved OuterRef yields a resolved outer
\* reference, and resolving an already-resolved outer reference is a no-op
\* that returns that same reference without consulting the query.
C9_ResolvedOuterRefResolveIsNoOp ==
    last.op = "resolve" =>
        /\ (Before.node.cls = "OuterRef" /\ Before.node.inner = 0)
              => (last.err = "" /\ heap.nodes[last.res].cls = "ResolvedOuterRef")
        /\ Before.node.cls = "ResolvedOuterRef"
              => (last.err = "" /\ last.res = last.recv /\ last.refs = <<>>)

\* C9 amended: resolving an OuterRef never consults the query; an OuterRef
\* naming a field yields a new ResolvedOuterRef of that name, an OuterRef
\* wrapping an OuterRef returns the wrapped one.  Resolving a
\* ResolvedOuterRef is a field-reference resolution: it asks the query for
\* its name once and returns the query's column, or raises the query's error.
C9_OuterRefResolution ==
    last.op = "resolve" =>
        /\ (Before.node.cls = "OuterRef" /\ Before.node.inner = 0)
              => /\ last.err = "" /\ last.refs = <<>>
                 /\ last.res # last.recv
                 /\ heap.nodes[last.res] =
                        [cls |-> "ResolvedOuterRef", name |-> Before.node.name, inner |-> 0]
        /\ (Before.node.cls = "OuterRef" /\ Before.node.inner # 0)
              => /\ last.err = "" /\ last.refs = <<>>
                 /\ last.res = Before.node.inner
                 /\ heap.nodes[last.res].cls = "OuterRef"
        /\ Before.node.cls = "ResolvedOuterRef"
              => /\ last.refs = <<[query |-> last.query, name |-> Before.node.name]>>
                 /\ IF Before.node.name \in DOMAIN OuterQuery(last.query).fields
                    THEN /\ last.err = ""
                         /\ heap.nodes[last.res].cls = "Col"
                         /\ heap.nodes[last.res].alias = OuterQuery(last.query).alias
                    ELSE last.err = "FieldError" /\ last.res = 0

\* C9 witness: an OuterRef was resolved, and the ResolvedOuterRef that gave
\* was resolved again, giving a column of the query.
C9_Witness ==
    /\ last.op = "resolve" /\ last.err = ""
    /\ last.recv # root
    /\ heap.nodes[root].cls = "OuterRef"
    /\ Before.node.cls = "ResolvedOuterRef"
    /\ heap.nodes[last.res].cls = "Col"

----------------------------------------------------------------------------
(* Claims about resolving one Subquery against two outer queries.           *)

RECURSIVE ColAliases(_, _)
RECURSIVE ExternalAliases(_, _)
RECURSIVE UnionOver(_)

UnionOver(sets) == IF sets = <<>> THEN {} ELSE Head(sets) \cup UnionOver(Tail(sets))

\* The table aliases of the columns reachable from a node.
ColAliases(h, id) ==
    (IF h.nodes[id].cls = "Col" THEN {h.nodes[id].alias} ELSE {})
    \cup UnionOver([i \in 1..Len(Referents(h, id)) |-> ColAliases(h, Referents(h, id)[i])])

\* The external aliases of the nested queries reachable from a node.
ExternalAliases(h, id) ==
    (IF h.nodes[id].cls \in {"Subquery", "Exists"}
     THEN h.qsets[h.nodes[id].queryset].external_aliases ELSE {})
    \cup UnionOver([i \in 1..Len(Referents(h, id)) |-> ExternalAliases(h, Referents(h, id)[i])])

\* A snapshot with the ordering of the nested query left out.
WithoutOrdering(snap) == [snap EXCEPT !.queryset[1].order_by = <<>>]

\* C2: when one Subquery S is resolved against the outer queries A and B, in
\* either order or interleaved statement by statement, the nested query S
\* holds (alias prefix, filter tree with its right-hand sides, external
\* aliases, annotations) stays as it was at construction, each result has a
\* queryset of its own, and a result holds no alias of the other outer
\* query, neither as an external alias nor in a resolved filter operand.
C2_ConcurrentResolutionsIsolated ==
    /\ WithoutOrdering(Snapshot(heap, root)) = WithoutOrdering(last.pre[1])
    /\ \A q \in OuterQueries :
          thr[q].clone # 0 =>
             /\ heap.nodes[thr[q].clone].queryset # heap.nodes[root].queryset
             /\ \A q2 \in OuterQueries \ {q} :
                   /\ thr[q2].clone # 0 =>
                         heap.nodes[thr[q].clone].queryset # heap.nodes[thr[q2].clone].queryset
                   /\ OuterQuery(q2).alias \notin ColAliases(heap, thr[q].clone)
                   /\ OuterQuery(q2).alias \notin ExternalAliases(heap, thr[q].clone)

\* Both resolutions ran to the end, interleaved, and each registered the
\* alias of its own outer query.
C2_Witness ==
    /\ thr["A"].pc = "done" /\ thr["B"].pc = "done"
    /\ hist[1].query # hist[2].query /\ hist[3].query # hist[4].query
    /\ "author" \in ExternalAliases(heap, thr["A"].clone)
    /\ "book" \in ExternalAliases(heap, thr["B"].clone)
    /\ "author" \in ColAliases(heap, thr["A"].clone)

----------------------------------------------------------------------------
(* Claims about the output type.                                            *)

\* No output type was declared for the node when it was constructed.
Undeclared(id) ==
    /\ IsBaseExpression(heap.nodes[id])
    /\ heap.nodes[id].cls \notin {"Col", "Subquery", "Exists"}
    /\ heap.nodes[id]._constructor_args.kwargs.output_field = NoField

\* _output_field was assigned on the node by one of the first i calls.
AssignedBy(id, i) ==
    \E j \in 1..i : hist[j].op = "set_output_field" /\ hist[j].recv = id

\* C4: for a node with zero source expressions and no declared output type,
\* requesting the output type raises a configuration error (FieldError), and
\* when _output_field is then set on that node, requesting the output type
\* again returns the value that was set, without raising.
C4_SetThenRequestReturnsIt ==
    \A i \in 1..Len(hist) :
        (/\ hist[i].op = "output_field"
         /\ Undeclared(hist[i].recv)
         /\ GetSourceExpressions(heap, hist[i].recv) = <<>>)
        => /\ ~AssignedBy(hist[i].recv, i) => hist[i].err = "FieldError"
           /\ (/\ i >= 3
               /\ hist[i - 2].op = "output_field" /\ hist[i - 2].recv = hist[i].recv
               /\ hist[i - 2].err = "FieldError"
               /\ hist[i - 1].op = "set_output_field" /\ hist[i - 1].recv = hist[i].recv)
              => (hist[i].err = "" /\ hist[i].val = hist[i - 1].val)

\* The output type declared for a node at construction (a column's is its
\* target unless one is given).
Declared(id) ==
    IF heap.nodes[id].cls = "Col" /\ heap.nodes[id]._constructor_args.kwargs.output_field = NoField
    THEN heap.nodes[id].target
    ELSE heap.nodes[id]._constructor_args.kwargs.output_field

\* The sources whose types a node is inferred from.
TypeSources(id) ==
    IF heap.nodes[id].cls = "When" THEN <<heap.nodes[id].result>>
    ELSE GetSourceExpressions(heap, id)

IsKnown(f) == f # NoField

RECURSIVE StaticType(_)
RECURSIVE KnownTypes(_)

\* The known output types of the sources of a node, in source order.
KnownTypes(id) ==
    SelectSeq([i \in 1..Len(TypeSources(id)) |-> StaticType(TypeSources(id)[i])], IsKnown)

\* The output type of a node as construction fixes it: the declared one,
\* else the first known one among its sources, else none.
StaticType(id) ==
    IF ~IsBaseExpression(heap.nodes[id]) THEN NoField
    ELSE IF Declared(id) # NoField THEN Declared(id)
    ELSE IF KnownTypes(id) = <<>> THEN NoField
    ELSE KnownTypes(id)[1]

SourcesDiffer(id) ==
    \E i, j \in 1..Len(KnownTypes(id)) : KnownTypes(id)[i].cls # KnownTypes(id)[j].cls

\* C5: requesting the output type of a node returns the declared type when
\* one was declared; when none was declared and the sources have output
\* types of different classes the request raises a configuration error
\* (FieldError), in whichever order the sources appear; when all sources
\* with a known type agree, that type is returned.
C5_OutputTypeInference ==
    (/\ last.op = "output_field"
     /\ IsBaseExpression(heap.nodes[last.recv])
     /\ ~AssignedBy(last.recv, Len(hist)))
    => /\ Declared(last.recv) # NoField
            => (last.err = "" /\ last.val = Declared(last.recv))
       /\ (Declared(last.recv) = NoField /\ SourcesDiffer(last.recv))
            => last.err = "FieldError"
       /\ (Declared(last.recv) = NoField /\ KnownTypes(last.recv) # <<>>
           /\ ~SourcesDiffer(last.recv))
            => (last.err = "" /\ last.val.cls = KnownTypes(last.recv)[1].cls)

----------------------------------------------------------------------------
(* Claims about equality and hashing.                                       *)

RECURSIVE NormalForm(_, _)

NormalArg(h, a) == IF a.t = "ref" THEN [expr |-> NormalForm(h, a.ref)] ELSE [val |-> a.v]

NormalArgs(h, as) == [i \in 1..Len(as) |-> NormalArg(h, as[i])]

\* The deconstruction of a node with the output_field keyword replaced by
\* its type class and every argument that is a node by its own normal form.
NormalForm(h, id) ==
    IF IsBaseExpression(h.nodes[id])
    THEN [variant |-> h.nodes[id].cls,
          path |-> <<"django.db.models.expressions", h.nodes[id].cls>>,
          args |-> NormalArgs(h, h.nodes[id]._constructor_args.args),
          output_type |-> h.nodes[id]._constructor_args.kwargs.output_field.cls,
          kwargs |-> NormalArgs(h, h.nodes[id]._constructor_args.kwargs.others)]
    ELSE IF h.nodes[id].cls \in {"F", "OuterRef", "ResolvedOuterRef"}
    THEN [variant |-> h.nodes[id].cls,
          path |-> <<"django.db.models.expressions", h.nodes[id].cls>>,
          args |-> IF h.nodes[id].inner # 0
                   THEN <<[expr |-> NormalForm(h, h.nodes[id].inner)]>>
                   ELSE <<[val |-> h.nodes[id].name]>>]
    ELSE [object |-> id]

\* The node is Value(5) constructed with output_field=f (none: NoField).
IsValue5(id, f) ==
    /\ heap.nodes[id].cls = "Value"
    /\ heap.nodes[id].value = PyInt(5)
    /\ heap.nodes[id]._constructor_args.kwargs.output_field = f

\* C8: two nodes are equal exactly when they are of the same variant and
\* have the same deconstruction, the output_field keyword compared by its
\* type class only: two Value(5) are equal and hash the same; Value(5) and
\* Value(5, output_field=IntegerField()) each differ from
\* Value(5, output_field=FloatField()).
C8_EqualityByDeconstruction ==
    last.op = "eq"
    => /\ (last.ret = PyBool(TRUE))
            <=> (NormalForm(heap, last.recv) = NormalForm(heap, last.other))
       /\ (IsValue5(last.recv, NoField) /\ IsValue5(last.other, NoField))
            => (last.ret = PyBool(TRUE) /\ last.hashes[1] = last.hashes[2])
       /\ ((IsValue5(last.recv, NoField) \/ IsValue5(last.recv, IntegerField))
           /\ IsValue5(last.other, FloatField))
            => last.ret = PyBool(FALSE)

\* Two distinct nodes whose output_field keywords are two instances of one
\* field class were compared and found equal.
C8_Witness ==
    /\ last.op = "eq" /\ last.recv # last.other
    /\ IsValue5(last.recv, IntegerField) /\ IsValue5(last.other, IntegerField2)
    /\ last.ret = PyBool(TRUE)

----------------------------------------------------------------------------
(* Claims about rendering.                                                  *)

\* The number of %s placeholders in a SQL text.
Placeholders(sql) == Cardinality({i \in 1..Len(sql) : sql[i] = "%s"})

\* C3: for every resolved node and every dialect rendering path (as_sql and
\* the sqlite, mysql and oracle overrides) the rendered (sql, params) has as
\* many %s placeholders in sql as params has elements, OrderBy with
\* nulls_first or nulls_last on the emulating dialects included, also when
\* the ordered expression carries bind parameters.
C3_PlaceholdersMatchParams ==
    (/\ last.op \in {"compile", "as_sql"}
     /\ last.err = ""
     /\ last.recv # root)
    => Placeholders(last.sql) = Len(last.params)

\* C10: rendering a resolved outer reference directly fails with an error
\* (ValueError), on every connection and through the compiler as well, and
\* produces no SQL.
C10_ResolvedOuterRefNeverRenders ==
    (/\ last.op \in {"compile", "as_sql"}
     /\ last.pre[1].node.cls = "ResolvedOuterRef")
    => (last.err = "ValueError" /\ last.sql = <<>> /\ last.params = <<>>)

\* An OuterRef was resolved and the resolved reference then rendered
\* directly.
C10_Witness ==
    /\ last.op = "as_sql" /\ last.recv # root
    /\ heap.nodes[root].cls = "OuterRef"
    /\ heap.nodes[last.recv].cls = "ResolvedOuterRef"
    /\ last.err = "ValueError"

----------------------------------------------------------------------------
(* Orderings: an OrderBy is constructed, then reversed, set ascending or    *)
(* descending, copied and resolved.                                         *)

\* OrderBy.reverse_ordering (1098-1100): flips descending, returns self.
OrderBy_reverse_ordering(h, id) ==
    Ret([h EXCEPT !.nodes[id].descending = ~@], id)

\* OrderBy.asc (1102-1103) and OrderBy.desc (1105-1106) return None.
OrderBy_asc(h, id) == Ret([h EXCEPT !.nodes[id].descending = FALSE], 0)
OrderBy_desc(h, id) == Ret([h EXCEPT !.nodes[id].descending = TRUE], 0)

OrderPrograms ==
    {POrderBy(e, d, nf, nl) :
        e \in {PF("name"), PValue(PyInt(3), NoField)},
        d \in BOOLEAN, nf \in BOOLEAN, nl \in BOOLEAN}

\* The state after the constructor call p, the call kept in hist.
ConstructedWith(p, r) ==
    /\ heap = r.h
    /\ root = r.res
    /\ last = [NoCall EXCEPT !.res = r.res, !.err = r.err,
                             !.pre = IF r.res = 0 THEN <<>> ELSE <<Snapshot(r.h, r.res)>>]
    /\ nops = 0
    /\ hist = <<[op |-> "construct", p |-> p, err |-> r.err]>>
    /\ thr = [q \in OuterQueries |-> Idle]

InitOrder == \E p \in OrderPrograms : ConstructedWith(p, Build(EmptyHeap, p))

\* The constructor call the caller made.
Constructor == hist[1].p

Returned(op, id, r) ==
    /\ heap' = r.h
    /\ last' = Call(op, id, r)

ReverseOrdering(id) ==
    /\ nops < MaxOps
    /\ heap.nodes[id].cls = "OrderBy"
    /\ Returned("reverse_ordering", id, OrderBy_reverse_ordering(heap, id))
    /\ nops' = nops + 1
    /\ UNCHANGED <<root, thr, hist>>

Asc(id) ==
    /\ nops < MaxOps
    /\ heap.nodes[id].cls = "OrderBy"
    /\ Returned("asc", id, OrderBy_asc(heap, id))
    /\ nops' = nops + 1
    /\ UNCHANGED <<root, thr, hist>>

Desc(id) ==
    /\ nops < MaxOps
    /\ heap.nodes[id].cls = "OrderBy"
    /\ Returned("desc", id, OrderBy_desc(heap, id))
    /\ nops' = nops + 1
    /\ UNCHANGED <<root, thr, hist>>

\* node.copy()
CopyNode(id) ==
    /\ nops < MaxOps
    /\ IsBaseExpression(heap.nodes[id])
    /\ Returned("copy", id, Copy(heap, id))
    /\ nops' = nops + 1
    /\ UNCHANGED <<root, thr, hist>>

NextOrder ==
    \/ \E id \in Held : ReverseOrdering(id)
    \/ \E id \in Held : Asc(id)
    \/ \E id \in Held : Desc(id)
    \/ \E id \in Held : CopyNode(id)
    \/ \E id \in Held, q \in OuterQueries, summarize \in BOOLEAN, for_save \in BOOLEAN :
            Resolve(id, q, summarize, for_save)

SpecOrder == InitOrder /\ [][NextOrder]_vars

\* C11: OrderBy(expr, nulls_first=True, nulls_last=True) raises ValueError
\* and creates no OrderBy; after construction and any reverse_ordering, asc,
\* desc, copy and resolve calls no OrderBy has both nulls_first and
\* nulls_last set.
C11_NullsFlagsExclusive ==
    /\ (Constructor.nulls_first /\ Constructor.nulls_last)
          => /\ hist[1].err = "ValueError"
             /\ root = 0
             /\ \A id \in NodeIds(heap) : heap.nodes[id].cls # "OrderBy"
    /\ \A id \in NodeIds(heap) :
          heap.nodes[id].cls = "OrderBy"
              => ~(heap.nodes[id].nulls_first /\ heap.nodes[id].nulls_last)

\* C11 witness: an OrderBy with nulls_first was reversed and then copied; the
\* copy carries the flag and the reversed direction.
C11_Witness ==
    /\ last.op = "copy" /\ last.err = ""
    /\ heap.nodes[last.res].cls = "OrderBy"
    /\ heap.nodes[last.res].nulls_first
    /\ heap.nodes[last.res].descending # Constructor.descending

----------------------------------------------------------------------------
(* Case expressions: a Case is constructed, from When objects or not, then  *)
(* copied and resolved.                                                     *)

CasePrograms ==
    {PCase(<<>>, PValue(PyInt(1), NoField), NoField),
     PCase(<<PWhen(PQ("a", FALSE), PF("id"))>>, PValue(PyInt(0), NoField), NoField),
     PCase(<<PWhen(PQ("a", FALSE), PF("id")), PWhen(PQ("b", TRUE), PValue(PyInt(2), NoField))>>,
           PF("name"), IntegerField),
     PCase(<<PWhen(PQ("a", FALSE), PF("missing"))>>, PValue(PyInt(0), NoField), NoField),
     PCase(<<PValue(PyInt(3), NoField)>>, PValue(PyInt(0), NoField), NoField),
     PCase(<<PWhen(PQ("a", FALSE), PF("id")), PF("name")>>, PValue(PyInt(0), NoField), NoField),
     PCase(<<PQ("a", FALSE), PWhen(PQ("a", FALSE), PF("id"))>>, PValue(PyInt(0), NoField),
           NoField),
     PCase(<<PFunc(FuncClass, <<>>)>>, PValue(PyInt(0), NoField), NoField)}

InitCase == \E p \in CasePrograms : ConstructedWith(p, Build(EmptyHeap, p))

NextCase ==
    \/ \E id \in Held : CopyNode(id)
    \/ \E id \in Held, q \in OuterQueries, summarize \in BOOLEAN, for_save \in BOOLEAN :
            Resolve(id, q, summarize, for_save)

SpecCase == InitCase /\ [][NextCase]_vars

\* C12: Case(*cases) with a positional argument that is not a When raises
\* TypeError and creates no Case; every Case there is after construction and
\* any copy and resolve calls has only When objects in its when-list, and its
\* source expressions are the when-list followed by its default.
C12_CaseHoldsWhens ==
    /\ (\E i \in 1..Len(Constructor.cases) : Constructor.cases[i].c # "When")
          => /\ hist[1].err = "TypeError"
             /\ root = 0
             /\ \A id \in NodeIds(heap) : heap.nodes[id].cls # "Case"
    /\ \A id \in NodeIds(heap) :
          heap.nodes[id].cls = "Case"
              => /\ \A i \in 1..Len(heap.lists[heap.nodes[id].cases]) :
                        heap.nodes[heap.lists[heap.nodes[id].cases][i]].cls = "When"
                 /\ Len(GetSourceExpressions(heap, id))
                        = Len(heap.lists[heap.nodes[id].cases]) + 1
                 /\ GetSourceExpressions(heap, id)[Len(GetSourceExpressions(heap, id))]
                        = heap.nodes[id].default

\* C12 witness: a Case with two When clauses that a copy or a resolve
\* returned was resolved; the result's when-list holds two new When objects.
C12_Witness ==
    /\ last.op = "resolve" /\ last.err = ""
    /\ last.recv # root
    /\ heap.nodes[last.res].cls = "Case"
    /\ Len(heap.lists[heap.nodes[last.res].cases]) = 2
    /\ heap.lists[heap.nodes[last.res].cases] # heap.lists[heap.nodes[last.recv].cases]

----------------------------------------------------------------------------
(* Rendering of Case: When clauses whose condition matches no row, alone    *)
(* and among others, with and without a declared output type.               *)

GenericIPAddressField == Field("GenericIPAddressField", 8)

\* When clauses: one whose condition can match, one whose condition cannot.
WhenSome(lookup, then) == PWhen(PQ(lookup, FALSE), then)
WhenNone(lookup, then) == PWhen(PQ(lookup, TRUE), then)

CaseRenderPrograms ==
    {PCase(<<>>, PValue(PyInt(1), NoField), NoField),
     PCase(<<>>, PValue(PyInt(1), NoField), GenericIPAddressField),
     PCase(<<WhenNone("a", PValue(PyInt(2), NoField))>>, PValue(PyInt(0), NoField), NoField),
     PCase(<<WhenNone("a", PValue(PyInt(2), NoField)), WhenNone("b", PF("id"))>>,
           PF("name"), GenericIPAddressField),
     PCase(<<WhenSome("a", PValue(PyInt(1), NoField)), WhenNone("b", PValue(PyInt(2), NoField)),
             WhenSome("c", PValue(PyInt(3), NoField))>>,
           PValue(PyInt(0), NoField), NoField),
     PCase(<<WhenNone("a", PValue(PyInt(1), NoField)), WhenSome("b", PValue(PyInt(2), NoField))>>,
           PValue(PyInt(0), NoField), GenericIPAddressField),
     PCase(<<WhenSome("a", PF("id")), WhenNone("b", PValue(PyInt(2), NoField))>>,
           PValue(PyInt(0), NoField), NoField),
     PCase(<<WhenSome("a", PValue(PyInt(1), NoField))>>,
           PCase(<<WhenNone("b", PValue(PyInt(2), NoField))>>, PValue(PyInt(0), NoField),
                 NoField),
           NoField),
     PCase(<<WhenNone("a", PValue(PyInt(1), NoField))>>, PQ("d", TRUE), NoField),
     PCase(<<WhenSome("a", PValue(PyInt(1), NoField))>>, PQ("d", TRUE), NoField)}

InitCaseRender == \E p \in CaseRenderPrograms : ConstructedWith(p, Build(EmptyHeap, p))

SpecCaseRender == InitCaseRender /\ [][NextRender]_vars

\* The last call rendered a Case.
CaseRendered ==
    /\ last.op \in {"compile", "as_sql"}
    /\ heap.nodes[last.recv].cls = "Case"

\* The when-list of the rendered Case, and what compiling one of its When
\* clauses, or its default, gives on the connection of the call.
RenderedCases == heap.lists[heap.nodes[last.recv].cases]
CompiledAlone(id) == Compile(heap, id, last.vendor)
IsSkipped(id) == CompiledAlone(id).err = "EmptyResultSet"
Survives(id) == ~IsSkipped(id)
Survivors == SelectSeq(RenderedCases, Survives)
DefaultAlone == CompiledAlone(heap.nodes[last.recv].default)

\* C13: when no When survives (there is none, or each raised EmptyResultSet)
\* Case.as_sql gives what compiling the default alone gives: the same SQL,
\* free of CASE and of the cast, and the same params; Case(default=Value(1))
\* renders as Value(1).
C13_CaseWithoutWhensRendersDefault ==
    (CaseRendered /\ Survivors = <<>>)
        => /\ last.err = DefaultAlone.err
           /\ last.sql = DefaultAlone.sql
           /\ last.params = DefaultAlone.params
           /\ \A i \in 1..Len(last.sql) : last.sql[i] \notin {"CASE", "HOST("}
           /\ (Constructor = PCase(<<>>, PValue(PyInt(1), NoField), NoField))
                 => (last.sql = <<"%s">> /\ last.params = <<PyInt(1)>>)

\* C13 witness: a resolved Case with a declared output type whose two When
\* clauses both raised EmptyResultSet was compiled on postgresql and gave the
\* SQL of its default.
C13_Witness ==
    /\ CaseRendered /\ last.op = "compile" /\ last.err = ""
    /\ last.vendor = "postgresql"
    /\ Len(RenderedCases) = 2 /\ Survivors = <<>>
    /\ heap.nodes[last.recv]._output_field = GenericIPAddressField
    /\ last.sql # <<>>

\* The SQL and the params of the When clauses ids, each compiled alone.
SqlOf(ids) == JoinWith([i \in 1..Len(ids) |-> CompiledAlone(ids[i]).sql], <<>>)
ParamsOf(ids) == JoinWith([i \in 1..Len(ids) |-> CompiledAlone(ids[i]).params], <<>>)

\* C14: a When that raises EmptyResultSet adds neither SQL nor params to what
\* Case.as_sql returns; the When clauses that compile appear in their order,
\* a space between them, with their params in that order; and Case.as_sql
\* raises EmptyResultSet only when its default does.
C14_EmptyWhenSkipped ==
    CaseRendered =>
        /\ last.err = "EmptyResultSet" => DefaultAlone.err = "EmptyResultSet"
        /\ (last.err = "" /\ Survivors # <<>>)
              => /\ last.sql = UnificationCastSql(last.vendor, heap.nodes[last.recv]._output_field,
                                                  <<"CASE">> \o SqlOf(Survivors) \o <<"ELSE">>
                                                  \o DefaultAlone.sql \o <<"END">>)
                 /\ last.params = ParamsOf(Survivors) \o DefaultAlone.params

\* C14 witness: a Case whose second of three When clauses raised
\* EmptyResultSet was compiled; the first and the third are in the SQL.
C14_Witness ==
    /\ CaseRendered /\ last.op = "compile" /\ last.err = ""
    /\ Len(RenderedCases) = 3 /\ Len(Survivors) = 2
    /\ IsSkipped(RenderedCases[2])
    /\ last.params = <<PyInt(1), PyInt(1), PyInt(1), PyInt(3), PyInt(0)>>

----------------------------------------------------------------------------
(* Function calls: Func classes with and without a declared arity are       *)
(* constructed with zero to three arguments, then resolved and rendered.    *)

Arity2Class == [function |-> "COALESCE", arity |-> 2]

FuncArguments ==
    {<<>>, <<PValue(PyInt(3), NoField)>>, <<PF("id")>>,
     <<PValue(PyInt(3), NoField), PF("id")>>,
     <<PF("id"), PValue(PyInt(3), NoField), PValue(PyInt(4), NoField)>>}

FuncPrograms ==
    {PFunc(fcls, es) : fcls \in {FuncClass, Arity1Class, Arity2Class}, es \in FuncArguments}
    \cup {PFuncOf(Arity1Class, <<PValue(PyInt(3), NoField)>>, DecimalField),
          PFuncOf(Arity1Class, <<PValue(PyInt(3), NoField), PF("id")>>, DecimalField)}

InitFunc == \E p \in FuncPrograms : ConstructedWith(p, Build(EmptyHeap, p))

SpecFunc == InitFunc /\ [][NextRender]_vars

\* The last call rendered a Func that has one argument.
UnaryFuncRendered ==
    /\ last.op \in {"compile", "as_sql"}
    /\ heap.nodes[last.recv].cls = "Func"
    /\ Len(last.sources) = 1

\* What compiling the argument alone gives.
ArgumentAlone == CompiledAlone(last.sources[1])

\* funcname(arg); compiled for sqlite, a Func whose output type is a
\* DecimalField has it cast to NUMERIC.
FuncnameOfArg ==
    IF /\ last.op = "compile" /\ last.vendor = "sqlite"
       /\ heap.nodes[last.recv]._output_field.cls = "DecimalField"
    THEN <<"CAST(", heap.nodes[last.recv].function, "(">> \o ArgumentAlone.sql
             \o <<")", "AS NUMERIC)">>
    ELSE <<heap.nodes[last.recv].function, "(">> \o ArgumentAlone.sql \o <<")">>

\* C15: a Func class with an arity constructed with another number of
\* arguments raises TypeError and creates no Func; with that number of
\* arguments (or without a declared arity) the Func is created with these
\* arguments; a Func of one argument renders as funcname(arg) with the
\* params of the argument.
C15_FuncArity ==
    /\ IF Constructor.fcls.arity # -1 /\ Len(Constructor.expressions) # Constructor.fcls.arity
       THEN /\ hist[1].err = "TypeError"
            /\ root = 0
            /\ \A id \in NodeIds(heap) : heap.nodes[id].cls # "Func"
       ELSE /\ hist[1].err = ""
            /\ heap.nodes[root].cls = "Func"
            /\ Len(heap.lists[heap.nodes[root].source_expressions])
                  = Len(Constructor.expressions)
    /\ UnaryFuncRendered
          => /\ last.err = ArgumentAlone.err
             /\ last.err = "" => /\ last.sql = FuncnameOfArg
                                 /\ last.params = ArgumentAlone.params

\* C15 witness: LOWER, of arity one, constructed with one argument and
\* compiled, gave LOWER(%s) with the argument's value as its parameter.
C15_Witness ==
    /\ UnaryFuncRendered /\ last.op = "compile" /\ last.err = ""
    /\ heap.nodes[last.recv].arity = 1
    /\ last.sql = <<"LOWER", "(", "%s", ")">>
    /\ last.params = <<PyInt(3)>>

----------------------------------------------------------------------------
(* Rendering of CombinedExpression: literal, column and nested operands, of *)
(* numeric, date and duration types.                                        *)

CombinedPrograms ==
    {PCombined(PValue(PyInt(3), NoField), "+", PValue(PyInt(4), NoField)),
     PCombined(PF("id"), "*", PValue(PyInt(3), NoField)),
     PCombined(PValue(PyInt(3), IntegerField), "-", PValue(PyInt(4), FloatField)),
     PCombined(PCol("T1", IntegerField), "/", PCol("T2", FloatField)),
     PCombined(PCombined(PValue(PyInt(3), NoField), "+", PValue(PyInt(4), NoField)), "*",
               PCombined(PF("id"), "-", PValue(PyInt(5), NoField))),
     PCombined(PCol("T1", DateField), "-", PCol("T1", DateTimeField)),
     PCombined(PCol("T1", DateField), "+", PCol("T1", DateField)),
     PCombined(PCol("T1", DateField), "-", PCol("T1", DateField)),
     PCombined(PCol("T1", DurationField), "+", PDurationValue(PyTimedelta(1), DurationField)),
     PCombined(PF("missing"), "+", PValue(PyInt(3), NoField)),
     PCombined(PValue(PyInt(3), NoField), "%%", PResolvedOuterRef("id"))}

InitCombined == \E p \in CombinedPrograms : ConstructedWith(p, Build(EmptyHeap, p))

SpecCombined == InitCombined /\ [][NextRender]_vars

\* The last call rendered a CombinedExpression.
CombinedRendered ==
    /\ last.op \in {"compile", "as_sql"}
    /\ heap.nodes[last.recv].cls = "CombinedExpression"

\* The output type of a side as CombinedExpression.as_sql reads it: None when
\* it cannot be told.
SideType(id) == TryOutputField(OutputField(heap, id)).val

IsDurationCase ==
    /\ ~HasNativeDurationField(last.vendor)
    /\ \/ SideType(heap.nodes[last.recv].lhs).cls = "DurationField"
       \/ SideType(heap.nodes[last.recv].rhs).cls = "DurationField"

IsTemporalCase ==
    /\ heap.nodes[last.recv].connector = "-"
    /\ SideType(heap.nodes[last.recv].lhs).cls \in TemporalTypes
    /\ SideType(heap.nodes[last.recv].lhs).cls = SideType(heap.nodes[last.recv].rhs).cls

LeftAlone == CompiledAlone(heap.nodes[last.recv].lhs)
RightAlone == CompiledAlone(heap.nodes[last.recv].rhs)

\* Both sides are expressions with an output type to read, and each renders
\* when compiled alone.
SidesRender ==
    /\ IsBaseExpression(heap.nodes[heap.nodes[last.recv].lhs])
    /\ IsBaseExpression(heap.nodes[heap.nodes[last.recv].rhs])
    /\ LeftAlone.err = "" /\ RightAlone.err = ""

\* C16: outside the duration and temporal-subtraction cases,
\* CombinedExpression.as_sql gives "(" lhs connector rhs ")", the sides as
\* the compiler renders them, with the params of the left side followed by
\* those of the right, and it does so whenever both sides render;
\* Value(3) + Value(4) gives "(%s + %s)" with [3, 4].
C16_CombinedGenericRendering ==
    /\ (CombinedRendered /\ ~IsDurationCase /\ ~IsTemporalCase)
          => /\ SidesRender => last.err = ""
             /\ last.err = ""
                   => /\ last.sql = <<"(">> \o LeftAlone.sql
                                         \o <<heap.nodes[last.recv].connector>>
                                         \o RightAlone.sql \o <<")">>
                      /\ last.params = LeftAlone.params \o RightAlone.params
    /\ (CombinedRendered /\ last.recv = root
        /\ Constructor = PCombined(PValue(PyInt(3), NoField), "+", PValue(PyInt(4), NoField)))
          => /\ last.err = ""
             /\ last.sql = <<"(", "%s", "+", "%s", ")">>
             /\ last.params = <<PyInt(3), PyInt(4)>>

\* C16 witness: (3 + 4) * (id - 5), resolved and compiled, gave the nested
\* parenthesised SQL with the three literals as params in reading order.
C16_Witness ==
    /\ CombinedRendered /\ last.op = "compile" /\ last.err = ""
    /\ last.sql = <<"(", "(", "%s", "+", "%s", ")", "*", "(">> \o QuoteName("author")
                      \o <<".">> \o QuoteName("column") \o <<"-", "%s", ")", ")">>
    /\ last.params = <<PyInt(3), PyInt(4), PyInt(5)>>

----------------------------------------------------------------------------
(* Combinable: composition of a node with a value or another node.  The     *)
(* other operand is a plain Python value (ArgVal) or an object (ArgRef).    *)

\* Number of composition calls made after construction.
MaxCombineOps == 1

\* The connector constants of Combinable; MOD is the quoted % operator.
ADD == "+"
SUB == "-"
MUL == "*"
DIV == "/"
POW == "^"
MOD == "%%"
BITAND == "&"
BITOR == "|"
BITLEFTSHIFT == "<<"
BITRIGHTSHIFT == ">>"

\* The methods that call _combine, with the connector they pass.
Connector(method) ==
    CASE method \in {"__add__", "__radd__"} -> ADD
      [] method \in {"__sub__", "__rsub__"} -> SUB
      [] method \in {"__mul__", "__rmul__"} -> MUL
      [] method \in {"__truediv__", "__rtruediv__"} -> DIV
      [] method \in {"__mod__", "__rmod__"} -> MOD
      [] method \in {"__pow__", "__rpow__"} -> POW
      [] method = "bitand" -> BITAND
      [] method = "bitor" -> BITOR
      [] method = "bitleftshift" -> BITLEFTSHIFT
      [] method = "bitrightshift" -> BITRIGHTSHIFT

\* The methods that pass reversed=True.
ReversedMethods == {"__radd__", "__rsub__", "__rmul__", "__rtruediv__", "__rmod__", "__rpow__"}

CombineMethods ==
    {"__add__", "__sub__", "__mul__", "__truediv__", "__mod__", "__pow__",
     "bitand", "bitor", "bitleftshift", "bitrightshift"} \cup ReversedMethods

\* The methods Python calls for & and |, the node on the left or on the right.
NaturalMethods == {"__and__", "__or__", "__rand__", "__ror__"}

\* The classes that mix in Combinable: Expression's subclasses and F's.
IsCombinable(n) == n.cls \notin {"OrderBy", "Q", "WhereNode"}

\* fields.DurationField(): a new field instance.
NewDurationField(h) == Field("DurationField", 100 + Len(h.nodes))

\* if not hasattr(other, 'resolve_expression'): other = DurationValue(...) or
\* Value(other)
Combinable_coerce(h, other) ==
    IF other.t = "ref" /\ HasResolveExpression(h, other.ref) THEN Ret(h, other.ref)
    ELSE IF other.v.t = "timedelta"
    THEN Value__init__(h, "DurationValue", other.v, NewDurationField(h))
    ELSE Value__init__(h, "Value", other.v, NoField)

\* _combine without the "if reversed" of 43-44.
Combinable_combined_unswapped(id, connector, reversed, o) ==
    CombinedExpression__init__(o.h, id, connector, o.res, NoField)

\* if reversed: return CombinedExpression(other, connector, self)
Combinable_combined(id, connector, reversed, o) ==
    IF reversed THEN CombinedExpression__init__(o.h, o.res, connector, id, NoField)
    ELSE CombinedExpression__init__(o.h, id, connector, o.res, NoField)

Combinable__combine(h, id, other, connector, reversed) ==
    Combinable_combined(id, connector, reversed, Combinable_coerce(h, other))

\* __and__ doing what bitand does.
Combinable___and___as_bitand(h, id, other) ==
    Combinable__combine(h, id, other, BITAND, FALSE)

Combinable___and__(h, id, other) == Raise(h, "NotImplementedError")
Combinable___or__(h, id, other) == Raise(h, "NotImplementedError")
Combinable___rand__(h, id, other) == Raise(h, "NotImplementedError")
Combinable___ror__(h, id, other) == Raise(h, "NotImplementedError")

\* node.method(other)
Combinable_call(h, id, method, other) ==
    CASE method = "__and__" -> Combinable___and__(h, id, other)
      [] method = "__or__" -> Combinable___or__(h, id, other)
      [] method = "__rand__" -> Combinable___rand__(h, id, other)
      [] method = "__ror__" -> Combinable___ror__(h, id, other)
      [] OTHER -> Combinable__combine(h, id, other, Connector(method), method \in ReversedMethods)

CombinePrograms ==
    {PValue(PyInt(3), NoField), PValue(PyInt(3), IntegerField), PF("id"), POuterRef("id"),
     PCol("T1", DateField),
     PCombined(PF("id"), "+", PValue(PyInt(4), NoField)),
     PFunc(FuncClass, <<PF("name")>>),
     PCase(<<WhenSome("a", PValue(PyInt(1), NoField))>>, PValue(PyInt(0), NoField), NoField),
     PExpressionWrapper(PF("name"), IntegerField),
     PSubquery("Subquery", QsetById(<<>>), FALSE),
     PSubquery("Exists", QsetById(<<>>), FALSE)}

InitCombine == \E p \in CombinePrograms : ConstructedWith(p, Build(EmptyHeap, p))

\* What a caller combines a node with: plain values and the nodes it holds.
Others ==
    {ArgVal(PyInt(5)), ArgVal(PyTimedelta(1)), ArgVal(PyNone)}
        \cup {ArgRef(id) : id \in Held}

CombineReturns(id, method, other, r) ==
    /\ heap' = r.h
    /\ last' = Call(method, id, r)
    /\ hist' = Append(hist, [op |-> method, recv |-> id, other |-> other, err |-> r.err,
                              nodes |-> Len(heap.nodes)])

\* node.method(other), method one of those that compose
Combine(id, method, other) ==
    /\ nops < MaxCombineOps
    /\ IsCombinable(heap.nodes[id])
    /\ CombineReturns(id, method, other, Combinable_call(heap, id, method, other))
    /\ nops' = nops + 1
    /\ UNCHANGED <<root, thr>>

NextCombine ==
    \/ \E id \in Held, method \in CombineMethods, other \in Others :
            Combine(id, method, other)
    \/ \E id \in Held, method \in NaturalMethods, other \in Others :
            Combine(id, method, other)

SpecCombine == InitCombine /\ [][NextCombine]_vars

\* The other operand of the last call, and the number of objects before it.
OtherOperand == hist[Len(hist)].other
NodesBefore == hist[Len(hist)].nodes

\* C17: node & other, node | other, other & node and other | node (__and__,
\* __or__, __rand__, __ror__) raise NotImplementedError and create no node;
\* bitand and bitor return a new CombinedExpression with connector & and |.
C17_NaturalBitwiseDisabled ==
    /\ last.op \in {"__and__", "__or__", "__rand__", "__ror__"}
          => /\ last.err = "NotImplementedError"
             /\ last.res = 0
             /\ Len(heap.nodes) = NodesBefore
    /\ last.op \in {"bitand", "bitor"}
          => /\ last.err = ""
             /\ last.res > NodesBefore
             /\ heap.nodes[last.res].cls = "CombinedExpression"
             /\ heap.nodes[last.res].connector = (IF last.op = "bitand" THEN "&" ELSE "|")

\* C17 witness: 5 & F('id'), which Python routes to F.__rand__, raised.
C17_Witness ==
    /\ last.op = "__rand__" /\ last.err = "NotImplementedError"
    /\ heap.nodes[last.recv].cls = "F"
    /\ OtherOperand = ArgVal(PyInt(5))

\* The operator symbol of a composition method, from the enumeration
\* {+, -, *, /, %, ^, &, |, <<, >>}.
Symbol(method) ==
    CASE method \in {"__add__", "__radd__"} -> "+"
      [] method \in {"__sub__", "__rsub__"} -> "-"
      [] method \in {"__mul__", "__rmul__"} -> "*"
      [] method \in {"__truediv__", "__rtruediv__"} -> "/"
      [] method \in {"__mod__", "__rmod__"} -> "%"
      [] method \in {"__pow__", "__rpow__"} -> "^"
      [] method = "bitand" -> "&"
      [] method = "bitor" -> "|"
      [] method = "bitleftshift" -> "<<"
      [] method = "bitrightshift" -> ">>"

\* A symbol as it is written in SQL text that takes bind parameters: the
\* percent sign is doubled.
Quoted(symbol) == IF symbol = "%" THEN "%%" ELSE symbol

IsRightHand(method) ==
    method \in {"__radd__", "__rsub__", "__rmul__", "__rtruediv__", "__rmod__", "__rpow__"}

\* The sides of the CombinedExpression the last call returned: the one that
\* is to be the receiver and the one that is to be the other operand.
ReceiverSide == IF IsRightHand(last.op) THEN heap.nodes[last.res].rhs ELSE heap.nodes[last.res].lhs
OperandSide == IF IsRightHand(last.op) THEN heap.nodes[last.res].lhs ELSE heap.nodes[last.res].rhs

\* C18: a composition method of a node X called with v returns a new
\* CombinedExpression whose connector is the method's operator symbol
\* (quoted for SQL), whose operands are (X, v') for a left-hand method and
\* (v', X) for a right-hand one, where v' is v itself when v is an
\* expression, a DurationValue with a DurationField when v is a timedelta and
\* a Value without output type otherwise; X is as it was.
C18_CombineBuildsCombinedExpression ==
    last.op \in CombineMethods
        => /\ last.err = ""
           /\ last.res > NodesBefore
           /\ heap.nodes[last.res].cls = "CombinedExpression"
           /\ heap.nodes[last.res].connector = Quoted(Symbol(last.op))
           /\ ReceiverSide = last.recv
           /\ IF OtherOperand.t = "ref"
              THEN /\ OperandSide = OtherOperand.ref
                   /\ Len(heap.nodes) = NodesBefore + 1
              ELSE /\ OperandSide > NodesBefore
                   /\ Len(heap.nodes) = NodesBefore + 2
                   /\ heap.nodes[OperandSide].value = OtherOperand.v
                   /\ IF OtherOperand.v.t = "timedelta"
                      THEN /\ heap.nodes[OperandSide].cls = "DurationValue"
                           /\ heap.nodes[OperandSide]._output_field.cls = "DurationField"
                      ELSE /\ heap.nodes[OperandSide].cls = "Value"
                           /\ heap.nodes[OperandSide]._output_field = NoField
           /\ Snapshot(heap, last.recv) = Before

\* C18 witness: 5 - F('id'), which Python routes to F.__rsub__, returned a
\* CombinedExpression of Value(5), "-" and the F.
C18_Witness ==
    /\ last.op = "__rsub__" /\ last.err = ""
    /\ heap.nodes[last.recv].cls = "F"
    /\ OtherOperand = ArgVal(PyInt(5))
    /\ heap.nodes[last.res].connector = "-"
    /\ heap.nodes[heap.nodes[last.res].lhs].value = PyInt(5)
    /\ heap.nodes[last.res].rhs = last.recv

----------------------------------------------------------------------------
(* Exists: construction with negated and with extra keywords, inversion,    *)
(* resolution and rendering.                                                *)

\* self.extra of the node r constructed, as given by **extra
WithExtra(r, extra) == [r EXCEPT !.h.nodes[r.res].extra = extra]

\* type(self)(self.queryset, o, negated=(not self.negated), **self.extra),
\* o the output_field of self
Exists_inverted(id, o) ==
    WithExtra(Subquery__init__(o.h, "Exists", o.h.nodes[id].queryset, o.val,
                               ~o.h.nodes[id].negated),
              o.h.nodes[id].extra)

\* __invert__ passing self.negated on as it is.
Exists___invert___keeps_flag(h, id) ==
    WithExtra(Subquery__init__(h, "Exists", h.nodes[id].queryset, BooleanField,
                               h.nodes[id].negated),
              h.nodes[id].extra)

Exists___invert__(h, id) == Exists_inverted(id, OutputField(h, id))

\* A nested queryset without outer references.
QsetPlain(order_by) ==
    PQset([t |-> "W", children |-> <<[t |-> "L", lhs |-> InnerCol, rhs |-> PConst],
                                     [t |-> "L", lhs |-> InnerCol,
                                      rhs |-> PValue(PyInt(3), NoField)]>>],
          <<>>, order_by)

ExistsPrograms ==
    {PSubquery("Exists", q, negated) :
        q \in {QsetPlain(<<>>), QsetPlain(<<"name">>), QsetById(<<"name">>), QsetAnnotated(<<>>),
               QsetEmpty(<<>>)},
        negated \in BOOLEAN}

\* Keyword arguments a caller passes besides negated and output_field.
Extras == {<<>>, <<"hint">>}

InitExists ==
    \E p \in ExistsPrograms, extra \in Extras :
        ConstructedWith(p, WithExtra(Build(EmptyHeap, p), extra))

Inverted(id, r) ==
    /\ heap' = r.h
    /\ last' = Call("invert", id, r)
    /\ hist' = Append(hist, [op |-> "invert", recv |-> id, res |-> r.res, err |-> r.err])

\* ~node
Invert(id) ==
    /\ nops < MaxOps
    /\ heap.nodes[id].cls = "Exists"
    /\ Inverted(id, Exists___invert__(heap, id))
    /\ nops' = nops + 1
    /\ UNCHANGED <<root, thr>>

NextExists ==
    \/ \E id \in Held : Invert(id)
    \/ \E id \in Held, q \in OuterQueries : Resolve(id, q, FALSE, FALSE)
    \/ \E id \in Held, v \in Vendors : CompileNode(id, v)

SpecExists == InitExists /\ [][NextExists]_vars

\* What rendering gives, the heap left out.
Outcome(r) == [sql |-> r.sql, params |-> r.params, err |-> r.err]

\* The renderings of a node: through the compiler and by as_sql, on each
\* vendor.
RenderingsOf(h, id) ==
    [v \in Vendors |-> [compile |-> Outcome(Compile(h, id, v)), as_sql |-> Outcome(AsSql(h, id, v))]]

\* Exists(q, negated=not n, **extra) constructed directly, q, n and extra
\* those of the receiver of the last call.
DirectlyNegated ==
    WithExtra(Subquery__init__(heap, "Exists", heap.nodes[last.recv].queryset, NoField,
                               ~heap.nodes[last.recv].negated),
              heap.nodes[last.recv].extra)

\* Of the receiver and the result of the last call, the negated one and the
\* other one.
NegatedOne == IF heap.nodes[last.res].negated THEN last.res ELSE last.recv
PlainOne == IF heap.nodes[last.res].negated THEN last.recv ELSE last.res

\* The SQL of a rendering prefixed with NOT.
Not(o) == IF o.err # "" THEN o ELSE [o EXCEPT !.sql = <<"NOT">> \o @]

\* The SQL of a rendering prefixed with NOT, inside the CASE WHEN wrapper
\* when it has one.
NotWithin(o) ==
    IF o.err # "" THEN o
    ELSE IF o.sql[1] = "CASE WHEN" THEN [o EXCEPT !.sql = <<"CASE WHEN", "NOT">> \o Tail(@)]
    ELSE [o EXCEPT !.sql = <<"NOT">> \o @]

\* What inversion keeps and toggles, and the renderings that do not depend
\* on the dialect's rewriting.
InvertToggles ==
    /\ last.err = ""
    /\ last.res # last.recv
    /\ heap.nodes[last.res].cls = "Exists"
    /\ heap.nodes[last.res].negated = ~heap.nodes[last.recv].negated
    /\ heap.nodes[last.res].queryset = heap.nodes[last.recv].queryset
    /\ heap.nodes[last.res].extra = heap.nodes[last.recv].extra
    /\ Snapshot(heap, last.recv) = Before
    /\ RenderingsOf(heap, last.res) = RenderingsOf(DirectlyNegated.h, DirectlyNegated.res)
    /\ (nops = 2 /\ Len(hist) = 3 /\ hist[3].recv = hist[2].res)
          => RenderingsOf(heap, last.res) = RenderingsOf(heap, hist[2].recv)

\* C19 as stated: ~Exists(q) is a new Exists with the flag toggled and the
\* same nested query and extra, the original unchanged; it renders as
\* Exists(q, negated=True) does; inverting twice renders as the original;
\* and the negated rendering is the non-negated rendering prefixed with NOT.
C19_InvertPrefixesNot ==
    last.op = "invert"
        => /\ InvertToggles
           /\ \A v \in Vendors :
                 /\ RenderingsOf(heap, NegatedOne)[v].as_sql
                       = Not(RenderingsOf(heap, PlainOne)[v].as_sql)
                 /\ RenderingsOf(heap, NegatedOne)[v].compile
                       = Not(RenderingsOf(heap, PlainOne)[v].compile)

\* C19 amended: as stated, except that the NOT goes before EXISTS(...): on
\* a dialect that rewrites EXISTS to CASE WHEN EXISTS(...) THEN 1 ELSE 0 END
\* the compiled negated rendering is CASE WHEN NOT EXISTS(...) THEN 1 ELSE 0
\* END.
C19_InvertTogglesNegation ==
    last.op = "invert"
        => /\ InvertToggles
           /\ \A v \in Vendors :
                 /\ RenderingsOf(heap, NegatedOne)[v].as_sql
                       = Not(RenderingsOf(heap, PlainOne)[v].as_sql)
                 /\ RenderingsOf(heap, NegatedOne)[v].compile
                       = NotWithin(RenderingsOf(heap, PlainOne)[v].compile)

\* C19 witness: an Exists with an ordered nested query and an extra keyword
\* was resolved and the result inverted; the inverted node renders, with
\* NOT in front on postgresql.
C19_Witness ==
    /\ last.op = "invert" /\ last.err = ""
    /\ last.recv # root /\ heap.nodes[last.recv].copied
    /\ Constructor.queryset.order_by # <<>>
    /\ heap.nodes[last.res].negated
    /\ heap.nodes[last.res].extra = <<"hint">>
    /\ RenderingsOf(heap, last.res)["postgresql"].compile.err = ""
    /\ RenderingsOf(heap, last.res)["postgresql"].compile.sql[1] = "NOT"
    /\ RenderingsOf(heap, last.res)["oracle"].compile.sql[2] = "NOT"

----------------------------------------------------------------------------
(* Resolution of a Subquery against an outer query: the external aliases    *)
(* of the nested query.  The nested filters hold outer references as the    *)
(* operand itself and inside a composite operand.                           *)

\* filter(col=OuterRef('id') + 1)
QsetComposite(order_by) ==
    PQset(WhereNode(<<Lookup(InnerCol, PCombined(PResolvedOuterRef("id"), "+",
                                                 PValue(PyInt(1), NoField)))>>),
          <<>>, order_by)

\* filter(col=Func(OuterRef('id')))
QsetFuncOperand(order_by) ==
    PQset(WhereNode(<<Lookup(InnerCol, PFunc(FuncClass, <<PResolvedOuterRef("id")>>))>>),
          <<>>, order_by)

\* A nested query whose annotation is a Subquery that has one itself.
QsetAnnotatedTwice(order_by) ==
    PQset(WhereNode(<<Lookup(InnerCol, PResolvedOuterRef("id"))>>),
          <<[key |-> "m", value |-> PSubquery("Subquery", QsetAnnotated(<<>>), FALSE)],
            [key |-> "k", value |-> PValue(PyInt(3), NoField)]>>,
          order_by)

NestedQuerysets ==
    UNION {{QsetById(o), QsetDeep(o), QsetAnnotated(o), QsetComposite(o), QsetFuncOperand(o),
            QsetAnnotatedTwice(o)} : o \in Orderings}

NestedPrograms == {PSubquery(cls, q, FALSE) : cls \in {"Subquery", "Exists"}, q \in NestedQuerysets}

InitNested == \E p \in NestedPrograms : ConstructedWith(p, Build(EmptyHeap, p))

SpecNested == InitNested /\ [][Next]_vars

RECURSIVE Lookups(_)
RECURSIVE ClassesIn(_, _)
RECURSIVE ResolvedAgainst(_, _, _, _)

\* The lookups of a filter tree, at every depth.
Lookups(w) ==
    IF w.t = "L" THEN <<w>>
    ELSE IF w.children = <<>> THEN <<>>
    ELSE Lookups(Head(w.children)) \o Lookups([w EXCEPT !.children = Tail(@)])

\* The classes of the nodes reachable from a node, itself included.
ClassesIn(h, id) ==
    {h.nodes[id].cls}
    \cup UnionOver([i \in 1..Len(Referents(h, id)) |-> ClassesIn(h, Referents(h, id)[i])])

\* The right-hand operands of the filter of queryset qs that are nodes.
FilterOperands(h, qs) ==
    {Lookups(h.qsets[qs].where)[i].rhs : i \in 1..Len(Lookups(h.qsets[qs].where))} \ {0}

\* The operand itself carries a table alias that the nested query lacks.
OperandUnregistered(h, qs, id) ==
    /\ "alias" \in DOMAIN h.nodes[id]
    /\ h.nodes[id].alias \notin h.qsets[qs].external_aliases

\* The operand holds a column of the outer query q, as the operand itself or
\* inside it, and the nested query has not registered the alias.
OuterColumnUnregistered(h, qs, id, q) ==
    /\ OuterQuery(q).alias \in ColAliases(h, id)
    /\ OuterQuery(q).alias \notin h.qsets[qs].external_aliases

\* Subquery id is a clone resolved with the arguments a, and not the node
\* orig it was made from: no outer reference is left in its filter operands,
\* the operands that carry an alias are registered, and its Subquery
\* annotations are resolved with a as well.
ResolvedAgainst(h, id, orig, a) ==
    /\ id # orig
    /\ h.nodes[id].copied
    /\ h.nodes[id].queryset # h.nodes[orig].queryset
    /\ h.nodes[id].is_summary = a.summarize
    /\ \A o \in FilterOperands(h, h.nodes[id].queryset) :
          /\ "ResolvedOuterRef" \notin ClassesIn(h, o)
          /\ ~OperandUnregistered(h, h.nodes[id].queryset, o)
    /\ \A i \in 1..Len(h.qsets[h.nodes[id].queryset].annotations) :
          h.nodes[h.qsets[h.nodes[id].queryset].annotations[i].value].cls
             \in {"Subquery", "Exists"} =>
             ResolvedAgainst(h, h.qsets[h.nodes[id].queryset].annotations[i].value,
                             h.qsets[h.nodes[orig].queryset].annotations[i].value, a)

\* The last call resolved a Subquery and returned.
SubqueryResolved ==
    /\ last.op = "resolve"
    /\ last.err = ""
    /\ heap.nodes[last.recv].cls \in {"Subquery", "Exists"}

\* The arguments of the last call.
LastArgs == ResolveArgs(last.query, last.summarize, last.for_save)

\* C20: after a Subquery is resolved against an outer query, the alias of
\* every column of the outer query that an outer reference of the nested
\* filter resolved to is among the external aliases of the result's nested
\* query, wherever the lookup is in the filter tree and wherever the outer
\* reference is in its operand; every filter operand that itself carries an
\* alias is registered; and every annotation that is a Subquery is a clone
\* resolved against the same outer query.
C20_OuterAliasesRegistered ==
    SubqueryResolved =>
       /\ ResolvedAgainst(heap, last.res, last.recv, LastArgs)
       /\ \A o \in FilterOperands(heap, heap.nodes[last.res].queryset) :
             ~OuterColumnUnregistered(heap, heap.nodes[last.res].queryset, o, last.query)

----------------------------------------------------------------------------
(* get_group_by_cols: the columns a node asks the GROUP BY clause to hold.  *)
(* An aggregate is a Func whose class sets contains_aggregate; the trees    *)
(* hold aggregates at the root, below the root and not at all.              *)

\* The Func classes that are aggregates (contains_aggregate = True).
AggregateFunctions == {"SUM"}
SumClass == [function |-> "SUM", arity |-> 1]

RECURSIVE ContainsAggregate(_, _)
RECURSIVE GetGroupByCols(_, _)
RECURSIVE GroupByColsOfAll(_, _)

\* BaseExpression.contains_aggregate: some source expression contains one.
\* (A cached_property; no call of this specification changes what a node
\* that was asked contains.)
BaseExpression_contains_aggregate(h, id) ==
    \E i \in 1..Len(GetSourceExpressions(h, id)) :
        /\ GetSourceExpressions(h, id)[i] # 0
        /\ ContainsAggregate(h, GetSourceExpressions(h, id)[i])

\* The filter clause a condition resolved to: none of the conditions here
\* holds an aggregate.
WhereNode_contains_aggregate(h, id) == FALSE

ContainsAggregate(h, id) ==
    CASE h.nodes[id].cls = "WhereNode" -> WhereNode_contains_aggregate(h, id)
      [] h.nodes[id].cls = "Func" /\ h.nodes[id].function \in AggregateFunctions -> TRUE
      [] OTHER -> BaseExpression_contains_aggregate(h, id)

\* cols = []; for source in sources: cols.extend(source.get_group_by_cols())
GroupByColsOfAll(h, ids) ==
    IF ids = <<>> THEN <<>>
    ELSE GetGroupByCols(h, Head(ids)) \o GroupByColsOfAll(h, Tail(ids))

BaseExpression_get_group_by_cols(h, id) ==
    IF ~ContainsAggregate(h, id) THEN <<id>>
    ELSE GroupByColsOfAll(h, GetSourceExpressions(h, id))

Value_get_group_by_cols(h, id) == <<>>

Col_get_group_by_cols(h, id) == <<id>>

Ref_get_group_by_cols(h, id) == <<id>>

When_get_group_by_cols(h, id) == GroupByColsOfAll(h, GetSourceExpressions(h, id))

OrderBy_get_group_by_cols(h, id) == GroupByColsOfAll(h, GetSourceExpressions(h, id))

\* The columns of the filter clause a condition resolved to, which the
\* clause itself stands for.
WhereNode_get_group_by_cols(h, id) == <<id>>

GetGroupByCols(h, id) ==
    CASE h.nodes[id].cls \in {"Value", "DurationValue"} -> Value_get_group_by_cols(h, id)
      [] h.nodes[id].cls = "Col" -> Col_get_group_by_cols(h, id)
      [] h.nodes[id].cls = "Ref" -> Ref_get_group_by_cols(h, id)
      [] h.nodes[id].cls = "When" -> When_get_group_by_cols(h, id)
      [] h.nodes[id].cls = "OrderBy" -> OrderBy_get_group_by_cols(h, id)
      [] h.nodes[id].cls = "WhereNode" -> WhereNode_get_group_by_cols(h, id)
      [] OTHER -> BaseExpression_get_group_by_cols(h, id)

IdCol == PCol("T1", IntegerField)
Sum(p) == PFunc(SumClass, <<p>>)
Three == PValue(PyInt(3), NoField)

GroupByPrograms ==
    {IdCol, Three,
     PCombined(IdCol, "+", Three),
     PFunc(FuncClass, <<IdCol, Three>>),
     Sum(IdCol),
     PCombined(Sum(IdCol), "+", PCol("T1", DecimalField)),
     PCombined(Sum(Three), "*", PFunc(FuncClass, <<IdCol, Three>>)),
     PFunc(FuncClass, <<PCombined(IdCol, "-", Three), Sum(PCombined(IdCol, "+", Three))>>),
     PWhen(PQ("a", FALSE), PF("id")),
     PWhen(PQ("a", FALSE), Sum(PF("id"))),
     PCase(<<PWhen(PQ("a", FALSE), PF("id"))>>, Three, NoField),
     PCase(<<PWhen(PQ("a", FALSE), Sum(PF("id"))), PWhen(PQ("b", FALSE), PF("name"))>>,
           Three, NoField),
     PRef("total", Sum(IdCol)),
     PRef("plain", IdCol),
     PExpressionWrapper(IdCol, IntegerField),
     PExpressionWrapper(Sum(IdCol), IntegerField),
     POrderBy(IdCol, FALSE, FALSE, FALSE),
     POrderBy(Sum(IdCol), TRUE, FALSE, FALSE),
     PSubquery("Subquery", QsetById(<<>>), FALSE)}

InitGroupBy == \E p \in GroupByPrograms : ConstructedWith(p, Build(EmptyHeap, p))

\* The nodes below and including id are resolved: no name and no condition
\* object is left that has no get_group_by_cols.
Groupable(h, id) ==
    ClassesIn(h, id) \cap {"F", "OuterRef", "ResolvedOuterRef", "Q"} = {}

\* node.get_group_by_cols(), node any object of the tree
GroupByCols(id) ==
    /\ nops < MaxOps
    /\ Groupable(heap, id)
    /\ last' = Called("get_group_by_cols", id)
    /\ hist' = Append(hist, [op |-> "get_group_by_cols", recv |-> id,
                             cols |-> GetGroupByCols(heap, id)])
    /\ nops' = nops + 1
    /\ UNCHANGED <<heap, root, thr>>

NextGroupBy ==
    \/ \E id \in NodeIds(heap) : GroupByCols(id)
    \/ \E id \in Held, q \in OuterQueries : Resolve(id, q, FALSE, FALSE)

SpecGroupBy == InitGroupBy /\ [][NextGroupBy]_vars

\* The last call was get_group_by_cols; LastCols is what it returned.
GroupByColsCalled == last.op = "get_group_by_cols"
LastCols == hist[Len(hist)].cols

\* C21: get_group_by_cols of a node whose subtree holds no aggregate returns
\* the one-element list of the node itself; of a node whose subtree holds
\* an aggregate it returns its children's group-by columns, concatenated in
\* source order.
C21_GroupByCols ==
    GroupByColsCalled =>
       IF ~ContainsAggregate(heap, last.recv) THEN LastCols = <<last.recv>>
       ELSE LastCols = GroupByColsOfAll(heap, GetSourceExpressions(heap, last.recv))

----------------------------------------------------------------------------
(* Rendering of OrderBy and the row order the rendered fragment asks the    *)
(* database for.  The database side is modelled from what the dialects      *)
(* document: placeholders are bound to params one to one, the keys of an    *)
(* ORDER BY are compared left to right, a key without a direction is        *)
(* ascending, IS NULL and ISNULL() are 1 for NULL and 0 otherwise.          *)

MaxRowValue == 2

\* The value of the ordering expression on a row: NULL, written 0, or a
\* number from 1 on.
IsNull(a) == a = 0

RowValues == 0..MaxRowValue

OrderRenderPrograms ==
    {POrderBy(e, d, nf, nl) :
        e \in {PF("name"), PCol("T1", IntegerField),
               PCombined(PF("id"), "+", PValue(PyInt(1), NoField)),
               PFunc(FuncClass, <<PF("id"), PValue(PyInt(3), NoField)>>),
               PValue(PyInt(3), NoField)},
        d \in BOOLEAN,
        nf \in BOOLEAN, nl \in BOOLEAN}

InitOrderRender == \E p \in OrderRenderPrograms : ConstructedWith(p, Build(EmptyHeap, p))

SpecOrderRender == InitOrderRender /\ [][NextRender]_vars

\* The database accepts the statement: every placeholder has its param.
Executes(sql, params) == Placeholders(sql) = Len(params)

\* The is-null key in front of a fragment over the expression e: what the
\* key is on a NULL row and on another row, <<>> when there is none.
IsNullKey(sql, e) ==
    IF Len(sql) > Len(e) + 1 /\ SubSeq(sql, 1, Len(e)) = e
       /\ sql[Len(e) + 1] \in {"IS NULL,", "IS NOT NULL,"}
    THEN <<[null |-> IF sql[Len(e) + 1] = "IS NULL," THEN 1 ELSE 0,
            other |-> IF sql[Len(e) + 1] = "IS NULL," THEN 0 ELSE 1,
            len |-> Len(e) + 1]>>
    ELSE IF Len(sql) > Len(e) + 2 /\ sql[1] = "IF(ISNULL(" /\ SubSeq(sql, 2, Len(e) + 1) = e
            /\ sql[Len(e) + 2] \in {"),1,0),", "),0,1),"}
    THEN <<[null |-> IF sql[Len(e) + 2] = "),1,0)," THEN 1 ELSE 0,
            other |-> IF sql[Len(e) + 2] = "),1,0)," THEN 0 ELSE 1,
            len |-> Len(e) + 2]>>
    ELSE <<>>

\* The fragment after its is-null key.
PrimaryKey(sql, e) ==
    IF IsNullKey(sql, e) = <<>> THEN sql
    ELSE SubSeq(sql, IsNullKey(sql, e)[1].len + 1, Len(sql))

\* The primary key is the expression with a direction.
IsPrimaryKey(key, e) ==
    /\ Len(key) = Len(e) + 1
    /\ SubSeq(key, 1, Len(e)) = e
    /\ key[Len(key)] \in {"ASC", "DESC"}

\* Row a sorts strictly before row b under the primary key: NULL is the
\* smallest value, as on the dialects without NULLS FIRST/LAST.
PrimaryBefore(key, a, b) ==
    IF key[Len(key)] = "DESC" THEN a > b ELSE a < b

KeyOf(k, a) == IF IsNull(a) THEN k.null ELSE k.other

\* Row a sorts strictly before row b under the keys of the fragment.
SortsBefore(sql, e, a, b) ==
    IF IsNullKey(sql, e) = <<>> THEN PrimaryBefore(PrimaryKey(sql, e), a, b)
    ELSE \/ KeyOf(IsNullKey(sql, e)[1], a) < KeyOf(IsNullKey(sql, e)[1], b)
         \/ /\ KeyOf(IsNullKey(sql, e)[1], a) = KeyOf(IsNullKey(sql, e)[1], b)
            /\ PrimaryBefore(PrimaryKey(sql, e), a, b)

\* Row a sorts strictly before row b under expr ASC|DESC NULLS FIRST|LAST of
\* the node n.
NativeBefore(n, a, b) ==
    IF IsNull(a) # IsNull(b)
    THEN IF n.nulls_last THEN IsNull(b) ELSE IsNull(a)
    ELSE IF IsNull(a) THEN FALSE
    ELSE IF n.descending THEN a > b ELSE a < b

\* The last call compiled an OrderBy with a nulls flag for a dialect that
\* has no NULLS FIRST/LAST, the ordering expression compiling.
EmulatedOrdering ==
    /\ last.op = "compile"
    /\ last.vendor \in {"sqlite", "mysql"}
    /\ last.err = ""
    /\ heap.nodes[last.recv].cls = "OrderBy"
    /\ heap.nodes[last.recv].nulls_first \/ heap.nodes[last.recv].nulls_last

\* The ordering expression compiled alone.
OrderedExpression == Compile(heap, heap.nodes[last.recv].expression, last.vendor)

\* The fragment is an is-null key followed by the primary key, and no
\* whitespace ends it.
EmulatedShape ==
    /\ IsNullKey(last.sql, OrderedExpression.sql) # <<>>
    /\ IsPrimaryKey(PrimaryKey(last.sql, OrderedExpression.sql), OrderedExpression.sql)
    /\ last.sql[Len(last.sql)] # ""

\* Sorting by the fragment orders the rows as the native clause does.
EmulatedOrder ==
    \A a \in RowValues, b \in RowValues :
        SortsBefore(last.sql, OrderedExpression.sql, a, b)
           <=> NativeBefore(heap.nodes[last.recv], a, b)

----------------------------------------------------------------------------
(* Claims about the arguments resolve_expression passes to the children.    *)

RECURSIVE NodesUnder(_, _)
\* The objects reachable from a node, itself included.
NodesUnder(h, id) ==
    {id} \cup UnionOver([i \in 1..Len(Referents(h, id)) |-> NodesUnder(h, Referents(h, id)[i])])

\* The literal values reachable from a node.
ValuesUnder(h, id) == {v \in NodesUnder(h, id) : h.nodes[v].cls \in {"Value", "DurationValue"}}

\* The literal v was resolved with the arguments a.
ValueResolvedWith(h, v, a) ==
    /\ "for_save" \in DOMAIN h.nodes[v]
    /\ h.nodes[v].for_save = a.for_save
    /\ h.nodes[v].is_summary = a.summarize

\* C23: after node.resolve_expression(query, summarize, for_save) returned,
\* every literal Value anywhere under the result was itself resolved with
\* the same summarize and for_save, for every variant of node.
C23_ResolveArgumentsReachValues ==
    last.op = "resolve" /\ last.err = "" =>
       \A v \in ValuesUnder(heap, last.res) :
           ValueResolvedWith(heap, v, ResolveArgs(last.query, last.summarize, last.for_save))

----------------------------------------------------------------------------
(* The rendering path of CombinedExpression.as_sql: sides with and without  *)
(* an output type, of numeric, date, datetime and duration types, under     *)
(* each connector and on dialects with and without a duration type.         *)

DispatchPrograms ==
    CombinedPrograms
    \cup {PCombined(PCol("T1", DateTimeField), "-", PCol("T1", DurationField)),
          PCombined(PCol("T1", DateTimeField), "-", PCol("T2", DateTimeField)),
          PCombined(PValue(PyInt(3), NoField), "-", PCol("T1", DurationField)),
          PCombined(PValue(PyInt(3), NoField), "-", PCol("T1", DateField))}

InitDispatch == \E p \in DispatchPrograms : ConstructedWith(p, Build(EmptyHeap, p))

SpecDispatch == InitDispatch /\ [][NextRender]_vars

\* The sides of the rendered node.
Lhs == heap.nodes[last.recv].lhs
Rhs == heap.nodes[last.recv].rhs

\* Both sides are expressions, whose output type can be asked for.
SidesAreExpressions ==
    IsBaseExpression(heap.nodes[Lhs]) /\ IsBaseExpression(heap.nodes[Rhs])

\* The first check: neither side resolves a type or the dialect has no
\* duration type, and a side is a duration.
DurationChosen ==
    /\ \/ SideType(Lhs) = NoField /\ SideType(Rhs) = NoField
       \/ ~HasNativeDurationField(last.vendor)
    /\ \/ SideType(Lhs).cls = "DurationField"
       \/ SideType(Rhs).cls = "DurationField"

\* The second check: a subtraction of two sides of one temporal type.
TemporalChosen ==
    /\ heap.nodes[last.recv].connector = "-"
    /\ SideType(Lhs).cls \in TemporalTypes
    /\ SideType(Lhs).cls = SideType(Rhs).cls

\* What a rendering gave: SQL, params and exception.
RenderingOf(r) == [sql |-> r.sql, params |-> r.params, err |-> r.err]

DurationPath == RenderingOf(DurationExpression_as_sql(heap, last.recv, last.vendor))
TemporalPath == RenderingOf(TemporalSubtraction_as_sql(heap, last.recv, last.vendor))
GenericPath == RenderingOf(Combined_generic(heap, last.recv, last.vendor))

\* C24: CombinedExpression.as_sql gives what duration-aware rendering gives
\* when neither side resolves a type or the dialect has no duration type,
\* and a side is a duration; otherwise what temporal subtraction gives when
\* the connector is subtraction and both sides have the same date, datetime
\* or time type; otherwise what the generic path gives.  The output is that
\* of the one path; where temporal subtraction gives something else than
\* the other two, the output is never its for sides of different types or
\* a connector other than subtraction.
C24_RenderingPathOrder ==
    CombinedRendered /\ SidesAreExpressions =>
       /\ RenderingOf(last) = IF DurationChosen THEN DurationPath
                              ELSE IF TemporalChosen THEN TemporalPath
                              ELSE GenericPath
       /\ (RenderingOf(last) = TemporalPath /\ TemporalPath \notin {GenericPath, DurationPath})
             => TemporalChosen

\* C24 witness: DateTime - Duration columns compiled for sqlite took the
\* duration-aware path, whose output differs from that of the other two.
C24_Witness ==
    /\ CombinedRendered /\ SidesAreExpressions /\ last.err = ""
    /\ last.vendor = "sqlite"
    /\ SideType(Lhs).cls = "DateTimeField" /\ SideType(Rhs).cls = "DurationField"
    /\ heap.nodes[last.recv].connector = "-"
    /\ RenderingOf(last) = DurationPath
    /\ DurationPath # GenericPath /\ DurationPath # TemporalPath

----------------------------------------------------------------------------
(* Claims about duration-aware rendering.                                   *)

\* The last call rendered a CombinedExpression by the duration-aware path.
DurationRendered ==
    /\ CombinedRendered /\ SidesAreExpressions
    /\ DurationChosen
    /\ last.err = ""

IsDurationLiteral(id) == heap.nodes[id].cls = "DurationValue"

\* A side wrapped with the dialect's format for duration arithmetic, and as
\* the compiler renders it.
SideFormatted(id) == FormatForDurationArithmetic(last.vendor, CompiledAlone(id).sql)
SidePlain(id) == CompiledAlone(id).sql

\* The duration-aware combination of the two rendered sides.
DurationCombined(l, r) ==
    <<"(">> \o CombineDurationExpression(last.vendor, heap.nodes[last.recv].connector, l, r)
            \o <<")">>

\* A side as the statement has it: formatted unless it is a duration literal.
SideUnlessLiteral(id) == IF IsDurationLiteral(id) THEN SidePlain(id) ELSE SideFormatted(id)

\* A side formatted when it is not a duration literal and its output type
\* is a duration.
SideWhenDuration(id) ==
    IF ~IsDurationLiteral(id) /\ SideType(id).cls = "DurationField"
    THEN SideFormatted(id) ELSE SidePlain(id)

\* C25 as stated: in duration-aware rendering each side that is not a
\* duration literal is wrapped with the dialect's format for duration
\* arithmetic before the sides are combined, and a duration literal is
\* compiled without the wrapper.
C25_EverySideFormatted ==
    DurationRendered => last.sql = DurationCombined(SideUnlessLiteral(Lhs), SideUnlessLiteral(Rhs))

\* C25: in duration-aware rendering a side that is not a duration literal
\* and whose output type is a duration is wrapped with the dialect's format
\* for duration arithmetic before the sides are combined; a duration
\* literal, and a side of another or of no known type, is compiled without
\* the wrapper; the params are those of the left side, then the right.
C25_DurationSidesFormatted ==
    DurationRendered =>
       /\ last.sql = DurationCombined(SideWhenDuration(Lhs), SideWhenDuration(Rhs))
       /\ last.params = CompiledAlone(Lhs).params \o CompiledAlone(Rhs).params

\* C25 witness: a datetime column minus a duration column compiled for
\* mysql: the duration column is wrapped, the datetime column is not.
C25_Witness ==
    /\ DurationRendered /\ last.vendor = "mysql"
    /\ SideType(Lhs).cls = "DateTimeField" /\ SideType(Rhs).cls = "DurationField"
    /\ SideFormatted(Rhs) # SidePlain(Rhs)
    /\ last.sql = <<"(">> \o SidePlain(Lhs) \o <<"-", "INTERVAL">> \o SidePlain(Rhs)
                      \o <<"MICROSECOND", ")">>

----------------------------------------------------------------------------
(* Func.as_sql with its keyword arguments: function, template and joiner    *)
(* given to the call, given to the constructor as extra, and left to the    *)
(* class.                                                                   *)

DistinctTemplate == <<"%(function)s", "(", "DISTINCT", "%(expressions)s", ")">>
CastTemplate == <<"(", "%(expressions)s", ")", "::text">>

\* **extra of the constructor call.
FuncExtras ==
    {<<>>,
     <<[key |-> "function", val |-> <<"COALESCE">>]>>,
     <<[key |-> "template", val |-> CastTemplate]>>,
     <<[key |-> "arg_joiner", val |-> <<"AND">>]>>,
     <<[key |-> "function", val |-> <<"COALESCE">>], [key |-> "template", val |-> CastTemplate],
       [key |-> "arg_joiner", val |-> <<"AND">>]>>}

\* The keyword arguments of the call, <<>> for one not given.
FunctionArguments == {<<>>, <<"UPPER">>}
TemplateArguments == {<<>>, DistinctTemplate}
JoinerArguments == {<<>>, <<"||">>}

FuncConfigPrograms ==
    {PFunc(FuncClass, <<>>),
     PFunc(Arity1Class, <<PF("name")>>),
     PFunc(FuncClass, <<PValue(PyInt(3), NoField), PF("id")>>),
     PFunc(FuncClass, <<PF("id"), PValue(PyInt(3), NoField), PValue(PyInt(4), NoField)>>)}

InitFuncConfig ==
    \E p \in FuncConfigPrograms, extra \in FuncExtras :
        ConstructedWith(p, WithExtra(Build(EmptyHeap, p), extra))

\* node.as_sql(compiler, connection, function=..., template=..., arg_joiner=...)
RenderFuncWith(id, v, function, template, arg_joiner) ==
    /\ nops < MaxOps
    /\ heap.nodes[id].cls = "Func"
    /\ Rendered("as_sql", id, v, Func_as_sql_with(heap, id, v, function, template, arg_joiner))
    /\ hist' = Append(hist, [op |-> "as_sql", function |-> function, template |-> template,
                             arg_joiner |-> arg_joiner])
    /\ nops' = nops + 1
    /\ UNCHANGED <<root, thr>>

NextFuncConfig ==
    \/ \E id \in Held, q \in OuterQueries : Resolve(id, q, FALSE, FALSE)
    \/ \E id \in Held, v \in Vendors, function \in FunctionArguments,
          template \in TemplateArguments, arg_joiner \in JoinerArguments :
            RenderFuncWith(id, v, function, template, arg_joiner)

SpecFuncConfig == InitFuncConfig /\ [][NextFuncConfig]_vars

\* The last call was as_sql of a Func with keyword arguments; Given is what
\* it was given, Arguments the arguments of the function call.
FuncRenderedWith == last.op = "as_sql" /\ Len(hist) > 1 /\ hist[Len(hist)].op = "as_sql"
Given == hist[Len(hist)]
Arguments == heap.lists[heap.nodes[last.recv].source_expressions]

\* Every argument renders when compiled alone.
ArgumentsRender == \A i \in 1..Len(Arguments) : CompiledAlone(Arguments[i]).err = ""

\* The first of: the argument of the call, the extra of the constructor,
\* the class-level default.
FirstSupplied(given, key, default) ==
    IF given # <<>> THEN given
    ELSE IF HasKey(heap.nodes[last.recv].extra, key)
    THEN ExtraGet(heap.nodes[last.recv].extra, key, default)
    ELSE default

\* The SQL of the arguments joined with a joiner.
ArgumentsJoined(joiner) ==
    JoinWith([i \in 1..Len(Arguments) |-> CompiledAlone(Arguments[i]).sql], joiner)

\* C26: Func.as_sql takes the function name, the template and the joiner
\* each from the argument of the call if given, else from the extra given
\* at construction if it has one, else from the class; the arguments are
\* compiled in order, their SQL joined with that joiner and their params
\* concatenated in the same order.
C26_FuncConfigurationPrecedence ==
    FuncRenderedWith /\ ArgumentsRender =>
       /\ last.err = ""
       /\ last.sql = Substitute(FirstSupplied(Given.template, "template", FuncTemplate),
                                FirstSupplied(Given.function, "function",
                                              <<heap.nodes[last.recv].function>>),
                                ArgumentsJoined(FirstSupplied(Given.arg_joiner, "arg_joiner",
                                                              FuncArgJoiner)))
       /\ last.params = ParamsOf(Arguments)

\* C26 witness: a resolved Func of a literal and a column whose constructor
\* was given function, template and joiner as extra was rendered with a
\* template only: the template is the call's, function and joiner are the
\* constructor's.
C26_Witness ==
    /\ FuncRenderedWith /\ ArgumentsRender
    /\ heap.nodes[last.recv].copied
    /\ Len(Arguments) = 2
    /\ Given.function = <<>> /\ Given.template = DistinctTemplate /\ Given.arg_joiner = <<>>
    /\ HasKey(heap.nodes[last.recv].extra, "function")
    /\ HasKey(heap.nodes[last.recv].extra, "template")
    /\ HasKey(heap.nodes[last.recv].extra, "arg_joiner")
    /\ last.sql = <<"COALESCE", "(", "DISTINCT", "%s", "AND">>
                      \o CompiledAlone(Arguments[2]).sql \o <<")">>
    /\ last.params = <<PyInt(3)>>

----------------------------------------------------------------------------
(* The type-unification cast of Case: output types declared on the Case,    *)
(* inferred from its sources, and neither.                                  *)

IPValue(v) == PValue(PyInt(v), GenericIPAddressField)

CaseCastPrograms ==
    CaseRenderPrograms
    \cup {PCase(<<WhenSome("a", IPValue(1)), WhenSome("b", IPValue(2))>>, IPValue(0), NoField),
          PCase(<<WhenSome("a", PValue(PyInt(1), IntegerField))>>, IPValue(0), NoField),
          PCase(<<WhenSome("a", PValue(PyInt(1), NoField)), WhenSome("b", PF("id"))>>,
                PValue(PyInt(0), NoField), GenericIPAddressField),
          PCase(<<WhenSome("a", PValue(PyInt(1), NoField))>>, PValue(PyInt(0), NoField),
                IntegerField)}

InitCaseCast == \E p \in CaseCastPrograms : ConstructedWith(p, Build(EmptyHeap, p))

SpecCaseCast == InitCaseCast /\ [][NextRender]_vars

\* The last call rendered a Case of which a When survived.
CaseWithWhensRendered == CaseRendered /\ Survivors # <<>> /\ last.err = ""

\* The output type given to the constructor of the rendered Case.
DeclaredOnCase == Constructor.output_field

\* CASE WHEN ... ELSE ... END of the surviving When clauses and the default.
CaseText == <<"CASE">> \o SqlOf(Survivors) \o <<"ELSE">> \o DefaultAlone.sql \o <<"END">>

\* C27: when a When survives, Case.as_sql gives the complete CASE ... ELSE
\* ... END wrapped in the dialect's type-unification cast for the output
\* type declared on the Case; with no declared and no inferred type it
\* gives the CASE text itself; the params are those of the surviving When
\* clauses in order, then those of the default.
C27_CaseCastAndParams ==
    CaseWithWhensRendered =>
       /\ last.params = ParamsOf(Survivors) \o DefaultAlone.params
       /\ DeclaredOnCase # NoField => last.sql = UnificationCastSql(last.vendor, DeclaredOnCase, CaseText)
       /\ (DeclaredOnCase = NoField /\ heap.nodes[last.recv]._output_field = NoField)
             => last.sql = CaseText

\* C27 witness: a resolved Case declared as GenericIPAddressField, two When
\* clauses surviving, compiled for postgresql: HOST(CASE ... END) with the
\* params of the two When clauses and of the default.
C27_Witness ==
    /\ CaseWithWhensRendered /\ last.op = "compile" /\ last.vendor = "postgresql"
    /\ heap.nodes[last.recv].copied
    /\ DeclaredOnCase = GenericIPAddressField
    /\ Len(Survivors) = 2
    /\ last.sql[1] = "HOST(" /\ last.sql[2] = "CASE" /\ last.sql[Len(last.sql)] = ")"
    /\ UnificationCastSql(last.vendor, DeclaredOnCase, CaseText) # CaseText
    /\ Len(last.params) = 4

----------------------------------------------------------------------------
(* The ordering of the nested query of an Exists.  Exists.resolve_expression *)
(* replaces the queryset by queryset.order_by() and resolves as a Subquery; *)
(* the programs of SpecExists hold nested queries with and without an       *)
(* ordering.                                                                *)

\* The last call resolved an Exists and returned.
ExistsResolved == SubqueryResolved /\ heap.nodes[last.recv].cls = "Exists"

\* The nested query of node id.
NestedQuery(h, id) == h.qsets[h.nodes[id].queryset]

\* The heap as the constructor left it.
AsConstructed == WithExtra(Build(EmptyHeap, Constructor), heap.nodes[root].extra)

\* What Subquery.resolve_expression gives for the constructed node when the
\* ordering of its nested query is kept.
ResolvedWithOrdering == Subquery_resolve_expression(AsConstructed.h, root, LastArgs)

\* The last call compiled a resolved Exists.
ResolvedExistsCompiled ==
    /\ last.op = "compile"
    /\ last.err = ""
    /\ heap.nodes[last.recv].cls = "Exists"
    /\ heap.nodes[last.recv].copied

\* C28: the nested query of a resolved Exists has no ordering, and its
\* rendering has no ORDER BY clause, whatever ordering the constructed query
\* had; apart from the ordering the receiver's nested query is as it was
\* before the call, and the resolved node is what resolving the constructed
\* node with its ordering kept gives (same filter, selected columns and
\* annotations).
C28_ExistsOrderingStripped ==
    /\ ExistsResolved =>
          /\ NestedQuery(heap, last.res).order_by = <<>>
          /\ WithoutOrdering(Snapshot(heap, last.recv)) = WithoutOrdering(last.pre[1])
          /\ nops = 1 =>
                /\ ResolvedWithOrdering.err = ""
                /\ Snapshot(heap, last.res)
                      = WithoutOrdering(Snapshot(ResolvedWithOrdering.h, ResolvedWithOrdering.res))
    /\ ResolvedExistsCompiled =>
          /\ NestedQuery(heap, last.recv).order_by = <<>>
          /\ \A i \in 1..Len(last.sql) : last.sql[i] # "ORDER BY"

\* C28 witness: an Exists constructed over a filtered query ordered by name
\* was resolved and the result compiled: SELECT ... WHERE ... with no ORDER
\* BY, while the constructed query renders with one.
C28_Witness ==
    /\ ResolvedExistsCompiled
    /\ Constructor.queryset.order_by = <<"name">>
    /\ last.recv # root
    /\ \E i \in 1..Len(last.sql) : last.sql[i] = "WHERE"
    /\ \E i \in 1..Len(Compile(AsConstructed.h, root, last.vendor).sql) :
          Compile(AsConstructed.h, root, last.vendor).sql[i] = "ORDER BY"

----------------------------------------------------------------------------
(* Equality against hashing.  SpecEq compares every pair of its nodes and   *)
(* takes their hashes; among them are nodes constructed with two instances  *)
(* of one field class and RawSQL nodes, each with a Field() of its own.     *)

\* The last comparison found two nodes equal.
ComparedEqual == last.op = "eq" /\ last.ret = PyBool(TRUE)

\* C29: two nodes that compare equal have the same hash, two nodes
\* constructed with separate instances of one output-field class included.
C29_EqualNodesHashEqual == ComparedEqual => last.hashes[1] = last.hashes[2]

----------------------------------------------------------------------------
(* The node after a failed inference of its output type.                    *)

\* Call i requested the output type of a node with no declared type whose
\* sources have types of different classes, and raised the FieldError; no
\* caller assigned _output_field on the node.
InferenceFailed(i) ==
    /\ hist[i].op = "output_field"
    /\ hist[i].err = "FieldError"
    /\ Undeclared(hist[i].recv)
    /\ SourcesDiffer(hist[i].recv)
    /\ ~AssignedBy(hist[i].recv, Len(hist))

\* C30: after a request for the output type of a node with mixed source
\* types raised the FieldError, the node's _output_field is still unset, and
\* every later request on the same node raises the FieldError again.
C30_FailedInferenceLeavesNodeUnset ==
    \A i \in 1..Len(hist) :
        InferenceFailed(i) =>
           /\ heap.nodes[hist[i].recv]._output_field = NoField
           /\ \A j \in (i + 1)..Len(hist) :
                 (hist[j].op = "output_field" /\ hist[j].recv = hist[i].recv)
                    => hist[j].err = "FieldError"

====
